---- MODULE Spec2Model ----
(***************************************************************************)
(* Storage-and-concurrency core of the BusTub teaching DBMS:               *)
(*   - LRUKReplacer            (src/src/buffer/lru_k_replacer.cpp)         *)
(*   - BufferPoolManager       (src/src/buffer/buffer_pool_manager.cpp)    *)
(*   - Read/Write page guards  (src/src/storage/page/page_guard.cpp)       *)
(*   - BPlusTree entry points  (src/src/storage/index/b_plus_tree.cpp)     *)
(*   - LockManager table locks (src/src/concurrency/lock_manager.cpp)      *)
(* Each subsystem has its own specification over the shared variables:     *)
(* SpecLRU, SpecBPM, SpecTree, SpecLock.                                   *)
(***************************************************************************)
EXTENDS Integers, Sequences, FiniteSets, TLC

(***************************************************************************)
(* Bounds of the model.                                                    *)
(***************************************************************************)
\* number of frames handed to the replacer / buffer pool constructor
NumFrames == 2
\* largest replacer_k tried by the constructor
MaxK == 2
\* cap on current_timestamp_ (it grows with every RecordAccess)
MaxTs == 4
\* cap on next_page_id_ (it grows with every NewPage)
MaxPages == 3
\* cap on pin_count_ (it grows with every FetchPage)
MaxPin == 2
\* largest byte pattern a client writes into a page buffer (0 = zeroed page)
MaxData == 1

\* transactions and tables of the lock manager
NumTxns == 2
NumTables == 1
\* threads that call the B+ tree, the keys and values they pass, and the
\* number of tree operations started in one run
NumThreads == 2
NumGuards == 2
NumFifoTxns == 3
\* rows of a table that LockRow and UnlockRow are called with
NumRows == 1
\* tables of the deadlock specification
NumDlTables == 2
MaxKey == 2
MaxVal == 2
MaxTreeOps == 3

INVALID_PAGE_ID == -1
INVALID_TXN_ID == -1
\* stand-in for std::numeric_limits<size_t>::max(), the distance of a frame
\* with fewer than k recorded accesses
Infinity == 2147483647

VARIABLES
  \* ---- LRUKReplacer ----
  node_store_,          \* frame id -> LRUKNode (present, history_, is_evictable_)
  current_timestamp_,
  curr_size_,
  k_,
  replacer_size_,
  lru_ret,              \* what the last replacer call returned to its caller
  \* ---- BufferPoolManager ----
  pages_,               \* frame id -> Page (page_id_, pin_count_, is_dirty_, data_)
  page_table_,          \* page id -> frame id, NoFrame when not resident
  free_list_,
  next_page_id_,
  disk,                 \* DiskManager: page id -> bytes
  bpm_ret,              \* what the last buffer pool call returned to its caller
  durable,              \* history: page id -> bytes at its last UnpinPage(.., true)
  covered,              \* history: page id -> no buffer write since that unpin
  flusher,              \* the thread inside FlushPage / FlushAllPages, which hold no mutex
  page_guard_,          \* guard object -> BasicPageGuard / ReadPageGuard (live, page_, is_dirty_)
  \* ---- LockManager ----
  request_queue_,       \* table oid -> LockRequestQueue::request_queue_
  upgrading_,           \* table oid -> LockRequestQueue::upgrading_
  txn_state,            \* txn id -> Transaction::GetState()
  isolation_level,      \* txn id -> Transaction::GetIsolationLevel()
  table_lock_set,       \* txn id -> lock mode -> set of table oids
  waiting,              \* txn id -> the cv_.wait its thread sleeps in, or NoWait
  lm_ret,               \* what the last lock manager call returned or threw
  \* ---- page guards and BPlusTree ----
  pc,                   \* thread -> position inside its tree operation
  cur,                  \* thread -> the operation it runs
  rwlatch_,             \* Page::rwlatch_ of the header page: writer, readers
  guard_,               \* thread -> the header page guard it holds
  pins_,                \* thread -> pins its operation took and has not returned
  tree_ret,             \* thread -> how its last tree operation ended
  inserted,             \* history: key -> value given to the insert calls made
  root_page_id_,        \* BPlusTreeHeaderPage::root_page_id_
  tree_pages_,          \* page id -> B+ tree page contents
  ops_started,          \* number of tree operations started
  \* ---- the mutexes of LockManager ----
  table_lock_map_latch_,  \* the thread that holds the mutex of table_lock_map_
  latch_,               \* table oid -> the thread that holds LockRequestQueue::latch_
  lm_pc,                \* thread -> its place in LockTable or UnlockTable
  lm_call               \* thread -> the arguments of its running call

lruVars == <<node_store_, current_timestamp_, curr_size_, k_, replacer_size_, lru_ret>>
bpmVars == <<pages_, page_table_, free_list_, next_page_id_, disk, bpm_ret, durable, covered>>

lockVars == <<request_queue_, upgrading_, txn_state, isolation_level, table_lock_set, waiting, lm_ret>>
treeVars == <<pc, cur, rwlatch_, guard_, pins_, tree_ret, inserted, root_page_id_, tree_pages_, ops_started>>

raceVars == <<flusher>>

guardVars == <<page_guard_>>

mutexVars == <<table_lock_map_latch_, latch_, lm_pc, lm_call>>

vars == <<lruVars, bpmVars, lockVars, treeVars, raceVars, guardVars, mutexVars>>

(***************************************************************************)
(* Generic helpers.                                                        *)
(***************************************************************************)
\* all orders in which the elements of the finite set S can be enumerated
RECURSIVE Orders(_)
Orders(S) ==
  IF S = {} THEN {<<>>}
  ELSE UNION {{<<x>> \o rest : rest \in Orders(S \ {x})} : x \in S}

(***************************************************************************)
(* LRUKNode                                                                *)
(***************************************************************************)
\* frame ids a caller may pass; replacer_size_ itself passes the range check
\* of RecordAccess/SetEvictable, replacer_size_ + 1 does not
FrameIds == 0 .. (NumFrames + 1)

NoNode == [present |-> FALSE, history_ |-> <<>>, is_evictable_ |-> FALSE]

\* LRUKNode::UpdateHistory: append the timestamp, keep the last k entries
UpdateHistory(node, ts, k) ==
  LET h == Append(node.history_, ts)
  IN  [node EXCEPT !.history_ = IF Len(h) > k THEN SubSeq(h, Len(h) - k + 1, Len(h)) ELSE h]

\* LRUKNode::GetBackwardDistance: +inf with fewer than k accesses, otherwise
\* now - timestamp of the k-th most recent access
GetBackwardDistance(node, now, k) ==
  IF Len(node.history_) < k THEN Infinity ELSE now - node.history_[1]

\* LRUKNode::GetEariestAccessTime: the oldest recorded timestamp
GetEariestAccessTime(node) == node.history_[1]

(***************************************************************************)
(* LRUKReplacer                                                            *)
(***************************************************************************)
TrackedFrames(store) == {f \in FrameIds : store[f].present}
EvictableFrames(store) == {f \in FrameIds : store[f].present /\ store[f].is_evictable_}

\* The scan loop of LRUKReplacer::Evict over node_store_ in iteration order
\* `order`.  st = [max, frame_to_evict, threw].  node_store_.at(-1) throws
\* std::out_of_range when a distance equal to the initial max (0) is met
\* before any candidate was chosen.
RECURSIVE EvictScan(_, _, _, _, _)
EvictScan(store, now, k, order, st) ==
  IF order = <<>> \/ st.threw THEN st
  ELSE
    LET f    == Head(order)
        node == store[f]
        d    == GetBackwardDistance(node, now, k)
        nst  == IF ~node.is_evictable_ THEN st
                ELSE IF d > st.max THEN [st EXCEPT !.max = d, !.frame_to_evict = f]
                ELSE IF d = st.max THEN
                       IF st.frame_to_evict = -1 THEN [st EXCEPT !.threw = TRUE]
                       ELSE IF GetEariestAccessTime(node) < GetEariestAccessTime(store[st.frame_to_evict])
                            THEN [st EXCEPT !.frame_to_evict = f]
                            ELSE st
                ELSE st
    IN EvictScan(store, now, k, Tail(order), nst)

EvictResult(store, now, k, order) ==
  EvictScan(store, now, k, order, [max |-> 0, frame_to_evict |-> -1, threw |-> FALSE])

\* an eviction that only clears the flag and keeps the node and its history
EvictErase_KeepsNode(store, f) == [store EXCEPT ![f].is_evictable_ = FALSE]

\* the replacer state after a successful Evict of frame f
EvictErase(store, f) == [store EXCEPT ![f] = NoNode]

\* LRUKReplacer::Evict
Evict ==
  \E order \in Orders(TrackedFrames(node_store_)) :
    LET r == EvictResult(node_store_, current_timestamp_, k_, order)
    IN  /\ IF r.threw
           THEN /\ lru_ret' = [op |-> "Evict", ok |-> FALSE, frame |-> -1, threw |-> TRUE]
                /\ UNCHANGED <<node_store_, curr_size_>>
           ELSE IF r.frame_to_evict # -1
           THEN /\ node_store_' = EvictErase(node_store_, r.frame_to_evict)
                /\ curr_size_' = curr_size_ - 1
                /\ lru_ret' = [op |-> "Evict", ok |-> TRUE, frame |-> r.frame_to_evict, threw |-> FALSE]
           ELSE /\ lru_ret' = [op |-> "Evict", ok |-> FALSE, frame |-> -1, threw |-> FALSE]
                /\ UNCHANGED <<node_store_, curr_size_>>
        /\ UNCHANGED <<current_timestamp_, k_, replacer_size_>>

\* node_store_ after LRUKReplacer::RecordAccess(frame_id) at timestamp ts
RecordAccessStore(store, f, ts, k) ==
  IF store[f].present
  THEN [store EXCEPT ![f] = UpdateHistory(store[f], ts, k)]
  ELSE [store EXCEPT ![f] = UpdateHistory([present |-> TRUE, history_ |-> <<>>, is_evictable_ |-> FALSE], ts, k)]

\* LRUKReplacer::RecordAccess
RecordAccess(f) ==
  /\ current_timestamp_ < MaxTs
  /\ IF replacer_size_ < f
     THEN /\ lru_ret' = [op |-> "RecordAccess", ok |-> FALSE, frame |-> f, threw |-> TRUE]
          /\ UNCHANGED <<node_store_, current_timestamp_>>
     ELSE /\ current_timestamp_' = current_timestamp_ + 1
          /\ node_store_' = RecordAccessStore(node_store_, f, current_timestamp_ + 1, k_)
          /\ lru_ret' = [op |-> "RecordAccess", ok |-> TRUE, frame |-> f, threw |-> FALSE]
  /\ UNCHANGED <<curr_size_, k_, replacer_size_>>

\* SetEvictable that forgets to count a node leaving the evictable set
SetEvictableSize_NoDecrement(node, size, set_evictable) ==
  IF set_evictable /\ ~node.is_evictable_ THEN size + 1 ELSE size

\* curr_size_ after LRUKReplacer::SetEvictable on a tracked node
SetEvictableSize(node, size, set_evictable) ==
  IF node.is_evictable_ /\ ~set_evictable THEN size - 1
  ELSE IF set_evictable /\ ~node.is_evictable_ THEN size + 1
  ELSE size

\* LRUKReplacer::SetEvictable
SetEvictable(f, set_evictable) ==
  /\ IF replacer_size_ < f \/ ~node_store_[f].present
     THEN /\ lru_ret' = [op |-> "SetEvictable", ok |-> FALSE, frame |-> f, threw |-> TRUE]
          /\ UNCHANGED <<node_store_, curr_size_>>
     ELSE /\ curr_size_' = SetEvictableSize(node_store_[f], curr_size_, set_evictable)
          /\ node_store_' = [node_store_ EXCEPT ![f].is_evictable_ = set_evictable]
          /\ lru_ret' = [op |-> "SetEvictable", ok |-> TRUE, frame |-> f, threw |-> FALSE]
  /\ UNCHANGED <<current_timestamp_, k_, replacer_size_>>

\* curr_size_ after LRUKReplacer::Remove dropped an evictable node
RemoveSize(size) == size - 1

\* LRUKReplacer::Remove
Remove(f) ==
  /\ IF ~node_store_[f].present
     THEN /\ lru_ret' = [op |-> "Remove", ok |-> FALSE, frame |-> f, threw |-> FALSE]
          /\ UNCHANGED <<node_store_, curr_size_>>
     ELSE IF ~node_store_[f].is_evictable_
     THEN /\ lru_ret' = [op |-> "Remove", ok |-> FALSE, frame |-> f, threw |-> TRUE]
          /\ UNCHANGED <<node_store_, curr_size_>>
     ELSE /\ curr_size_' = RemoveSize(curr_size_)
          /\ node_store_' = [node_store_ EXCEPT ![f] = NoNode]
          /\ lru_ret' = [op |-> "Remove", ok |-> TRUE, frame |-> f, threw |-> FALSE]
  /\ UNCHANGED <<current_timestamp_, k_, replacer_size_>>

\* LRUKReplacer::Size
Size == curr_size_

(***************************************************************************)
(* BufferPoolManager                                                       *)
(***************************************************************************)
pool_size_ == NumFrames
PoolFrames == 0 .. (pool_size_ - 1)
PageIds == 0 .. (MaxPages - 1)
Data == 0 .. MaxData
NoFrame == -1

\* Page after ResetMemory and the metadata reset of an empty frame
EmptyPage == [page_id_ |-> INVALID_PAGE_ID, pin_count_ |-> 0, is_dirty_ |-> FALSE, data_ |-> 0]

\* what a call gave back: the operation, whether it returned a page or true,
\* whether it left by an exception, the page that left the pool because of it,
\* and the page id and dirty flag it was called with (NewPage: the id returned)
BpmRet(op, ok, threw, victim, page_id, is_dirty) ==
  [op |-> op, ok |-> ok, threw |-> threw, victim |-> victim,
   page_id |-> page_id, is_dirty |-> is_dirty]

\* the state the buffer pool operations work on, as one record
BpmState ==
  [pages |-> pages_, pt |-> page_table_, fl |-> free_list_, disk |-> disk,
   store |-> node_store_, size |-> curr_size_, ts |-> current_timestamp_]

\* BufferPoolManager::FlushPage (called with the latch already held by the
\* eviction and delete paths, or directly by a client)
FlushPage(S, page_id) ==
  IF page_id = INVALID_PAGE_ID \/ S.pt[page_id] = NoFrame
  THEN S
  ELSE LET f == S.pt[page_id]
       IN  [S EXCEPT !.disk[page_id] = S.pages[f].data_,
                     !.pages[f].is_dirty_ = FALSE]

\* a victim replacement that leaves the victim's page table entry behind
ReplaceVictim_KeepsMapping(S, f) ==
  LET pid == S.pages[f].page_id_
      S1  == IF S.pages[f].is_dirty_ THEN FlushPage(S, pid) ELSE S
  IN  [S1 EXCEPT !.pages[f].data_ = 0,
                 !.pages[f].pin_count_ = 0,
                 !.pages[f].page_id_ = INVALID_PAGE_ID]

\* a victim replacement that reuses the frame without writing a dirty page
ReplaceVictim_NoFlush(S, f) ==
  LET pid == S.pages[f].page_id_
  IN  [S EXCEPT !.pages[f].data_ = 0,
                !.pages[f].pin_count_ = 0,
                !.pages[f].is_dirty_ = FALSE,
                !.pt[pid] = NoFrame,
                !.pages[f].page_id_ = INVALID_PAGE_ID]

\* BufferPoolManager::HasReplacementFrame, the branch taken after
\* replacer_->Evict returned frame f: flush if dirty, reset, drop the mapping
ReplaceVictim(S, f) ==
  LET pid == S.pages[f].page_id_
      S1  == IF S.pages[f].is_dirty_ THEN FlushPage(S, pid) ELSE S
  IN  [S1 EXCEPT !.pages[f].data_ = 0,
                 !.pages[f].pin_count_ = 0,
                 !.pt[pid] = NoFrame,
                 !.pages[f].page_id_ = INVALID_PAGE_ID]

\* BufferPoolManager::HasReplacementFrame; `order` is the iteration order of
\* the replacer's node_store_ during Evict
HasReplacementFrame(S, order) ==
  IF S.fl # <<>>
  THEN [ok |-> TRUE, threw |-> FALSE, frame |-> Head(S.fl), victim |-> INVALID_PAGE_ID,
        S |-> [S EXCEPT !.fl = Tail(S.fl)]]
  ELSE LET r == EvictResult(S.store, S.ts, k_, order)
       IN  IF r.threw THEN [ok |-> FALSE, threw |-> TRUE, frame |-> -1, victim |-> INVALID_PAGE_ID, S |-> S]
           ELSE IF r.frame_to_evict # -1
           THEN [ok |-> TRUE, threw |-> FALSE, frame |-> r.frame_to_evict,
                 victim |-> S.pages[r.frame_to_evict].page_id_,
                 S |-> ReplaceVictim([S EXCEPT !.store = EvictErase(S.store, r.frame_to_evict),
                                               !.size = S.size - 1],
                                     r.frame_to_evict)]
           ELSE [ok |-> FALSE, threw |-> FALSE, frame |-> -1, victim |-> INVALID_PAGE_ID, S |-> S]

\* BufferPoolManager::NewBufferPage: reset the frame, pin it once, record the
\* access, mark it non-evictable and enter it in the page table
NewBufferPage(S, f, page_id) ==
  LET st1 == RecordAccessStore(S.store, f, S.ts + 1, k_)
  IN  [S EXCEPT !.pages[f] = [page_id_ |-> page_id, pin_count_ |-> 1, is_dirty_ |-> FALSE, data_ |-> 0],
                !.ts = S.ts + 1,
                !.size = SetEvictableSize(st1[f], S.size, FALSE),
                !.store = [st1 EXCEPT ![f].is_evictable_ = FALSE],
                !.pt[page_id] = f]

\* the iteration orders of node_store_ that HasReplacementFrame can meet; the
\* replacer is not consulted while the free list has a frame
ScanOrders(S) == IF S.fl # <<>> THEN {<<>>} ELSE Orders(TrackedFrames(S.store))

\* the variables after an operation that left the buffer pool in state S
BpmCommit(S) ==
  /\ pages_' = S.pages
  /\ page_table_' = S.pt
  /\ free_list_' = S.fl
  /\ disk' = S.disk
  /\ node_store_' = S.store
  /\ curr_size_' = S.size
  /\ current_timestamp_' = S.ts

\* result of BufferPoolManager::NewPage on state S with page id counter next
NewPageResult(S, next, order) ==
  LET h == HasReplacementFrame(S, order)
  IN  IF h.ok
      THEN [ok |-> TRUE, threw |-> FALSE, frame |-> h.frame, page_id |-> next,
            victim |-> h.victim, next |-> next + 1, S |-> NewBufferPage(h.S, h.frame, next)]
      ELSE [ok |-> FALSE, threw |-> h.threw, frame |-> -1, page_id |-> INVALID_PAGE_ID,
            victim |-> INVALID_PAGE_ID, next |-> next, S |-> S]

\* BufferPoolManager::NewPage
NewPage ==
  /\ \E order \in ScanOrders(BpmState) :
       LET r == NewPageResult(BpmState, next_page_id_, order)
       IN  /\ BpmCommit(r.S)
           /\ next_page_id_' = r.next
           /\ bpm_ret' = BpmRet("NewPage", r.ok, r.threw, r.victim, r.page_id, FALSE)
  /\ UNCHANGED <<k_, replacer_size_, lru_ret, durable, covered>>

\* a fetch of a resident page that pins it but leaves it evictable
FetchResident_StaysEvictable(S, page_id) ==
  LET f == S.pt[page_id]
  IN  [S EXCEPT !.store = RecordAccessStore(S.store, f, S.ts + 1, k_),
                !.ts = S.ts + 1,
                !.pages[f].pin_count_ = S.pages[f].pin_count_ + 1]

\* BufferPoolManager::FetchPage, the branch for a resident page
FetchResident(S, page_id) ==
  LET f   == S.pt[page_id]
      st1 == [S.store EXCEPT ![f].is_evictable_ = FALSE]
  IN  [S EXCEPT !.size = SetEvictableSize(S.store[f], S.size, FALSE),
                !.store = RecordAccessStore(st1, f, S.ts + 1, k_),
                !.ts = S.ts + 1,
                !.pages[f].pin_count_ = S.pages[f].pin_count_ + 1]

\* a fetch that gives up when the free list is empty instead of evicting
FetchPageResult_NoEviction(S, page_id, order) ==
  IF S.pt[page_id] # NoFrame
  THEN [ok |-> TRUE, threw |-> FALSE, frame |-> S.pt[page_id], victim |-> INVALID_PAGE_ID,
        S |-> FetchResident(S, page_id)]
  ELSE IF S.fl = <<>>
  THEN [ok |-> FALSE, threw |-> FALSE, frame |-> -1, victim |-> INVALID_PAGE_ID, S |-> S]
  ELSE LET h  == HasReplacementFrame(S, order)
           S1 == NewBufferPage(h.S, h.frame, page_id)
       IN  [ok |-> TRUE, threw |-> FALSE, frame |-> h.frame, victim |-> h.victim,
            S |-> [S1 EXCEPT !.pages[h.frame].data_ = S1.disk[page_id]]]

\* result of BufferPoolManager::FetchPage
FetchPageResult(S, page_id, order) ==
  IF S.pt[page_id] # NoFrame
  THEN [ok |-> TRUE, threw |-> FALSE, frame |-> S.pt[page_id], victim |-> INVALID_PAGE_ID,
        S |-> FetchResident(S, page_id)]
  ELSE LET h == HasReplacementFrame(S, order)
       IN  IF h.ok
           THEN LET S1 == NewBufferPage(h.S, h.frame, page_id)
                IN  [ok |-> TRUE, threw |-> FALSE, frame |-> h.frame, victim |-> h.victim,
                     S |-> [S1 EXCEPT !.pages[h.frame].data_ = S1.disk[page_id]]]
           ELSE [ok |-> FALSE, threw |-> h.threw, frame |-> -1, victim |-> INVALID_PAGE_ID, S |-> S]

\* BufferPoolManager::FetchPage
FetchPage(page_id) ==
  /\ \E order \in (IF page_table_[page_id] # NoFrame THEN {<<>>} ELSE ScanOrders(BpmState)) :
       LET r == FetchPageResult(BpmState, page_id, order)
       IN  /\ BpmCommit(r.S)
           /\ bpm_ret' = BpmRet("FetchPage", r.ok, r.threw, r.victim, page_id, FALSE)
  /\ UNCHANGED <<next_page_id_, k_, replacer_size_, lru_ret, durable, covered>>

\* an unpin that stores its argument as the frame's dirty flag
UnpinPageResult_ClearsDirty(S, page_id, is_dirty) ==
  IF S.pt[page_id] = NoFrame \/ S.pages[S.pt[page_id]].pin_count_ = 0
  THEN [ok |-> FALSE, S |-> S]
  ELSE LET f  == S.pt[page_id]
           S1 == [S EXCEPT !.pages[f].pin_count_ = S.pages[f].pin_count_ - 1,
                           !.pages[f].is_dirty_ = is_dirty]
       IN  [ok |-> TRUE,
            S |-> IF S1.pages[f].pin_count_ = 0
                  THEN [S1 EXCEPT !.size = SetEvictableSize(S1.store[f], S1.size, TRUE),
                                  !.store[f].is_evictable_ = TRUE]
                  ELSE S1]

\* result of BufferPoolManager::UnpinPage
UnpinPageResult(S, page_id, is_dirty) ==
  IF S.pt[page_id] = NoFrame \/ S.pages[S.pt[page_id]].pin_count_ = 0
  THEN [ok |-> FALSE, S |-> S]
  ELSE LET f  == S.pt[page_id]
           S1 == [S EXCEPT !.pages[f].pin_count_ = S.pages[f].pin_count_ - 1,
                           !.pages[f].is_dirty_ = IF is_dirty THEN is_dirty ELSE S.pages[f].is_dirty_]
       IN  [ok |-> TRUE,
            S |-> IF S1.pages[f].pin_count_ = 0
                  THEN [S1 EXCEPT !.size = SetEvictableSize(S1.store[f], S1.size, TRUE),
                                  !.store[f].is_evictable_ = TRUE]
                  ELSE S1]

\* BufferPoolManager::UnpinPage
UnpinPage(page_id, is_dirty) ==
  LET r == UnpinPageResult(BpmState, page_id, is_dirty)
  IN  /\ BpmCommit(r.S)
      /\ bpm_ret' = BpmRet("UnpinPage", r.ok, FALSE, INVALID_PAGE_ID, page_id, is_dirty)
      /\ IF r.ok /\ is_dirty
         THEN /\ durable' = [durable EXCEPT ![page_id] = pages_[page_table_[page_id]].data_]
              /\ covered' = [covered EXCEPT ![page_id] = TRUE]
         ELSE UNCHANGED <<durable, covered>>
      /\ UNCHANGED <<next_page_id_, k_, replacer_size_, lru_ret>>

\* BufferPoolManager::FlushPage called by a client
ClientFlushPage(page_id) ==
  /\ BpmCommit(FlushPage(BpmState, page_id))
  /\ bpm_ret' = BpmRet("FlushPage", page_table_[page_id] # NoFrame, FALSE, INVALID_PAGE_ID, page_id, FALSE)
  /\ UNCHANGED <<next_page_id_, k_, replacer_size_, lru_ret, durable, covered>>

\* a delete that leaves the frame's node in the replacer
DeletePageResult_KeepsNode(S, page_id) ==
  IF S.pt[page_id] = NoFrame THEN [ok |-> TRUE, threw |-> FALSE, victim |-> INVALID_PAGE_ID, S |-> S]
  ELSE LET f == S.pt[page_id]
       IN  IF S.pages[f].pin_count_ # 0 THEN [ok |-> FALSE, threw |-> FALSE, victim |-> INVALID_PAGE_ID, S |-> S]
           ELSE LET S1 == IF S.pages[f].is_dirty_ THEN FlushPage(S, page_id) ELSE S
                    S2 == [S1 EXCEPT !.pt[page_id] = NoFrame]
                IN  IF S2.store[f].present /\ ~S2.store[f].is_evictable_
                    THEN [ok |-> FALSE, threw |-> TRUE, victim |-> page_id, S |-> S2]
                    ELSE [ok |-> TRUE, threw |-> FALSE, victim |-> page_id,
                          S |-> [S2 EXCEPT !.fl = Append(S2.fl, f),
                                           !.pages[f] = EmptyPage]]

\* result of BufferPoolManager::DeletePage; replacer_->Remove throws on a
\* tracked frame that is not evictable, after the mapping was erased
DeletePageResult(S, page_id) ==
  IF S.pt[page_id] = NoFrame THEN [ok |-> TRUE, threw |-> FALSE, victim |-> INVALID_PAGE_ID, S |-> S]
  ELSE LET f == S.pt[page_id]
       IN  IF S.pages[f].pin_count_ # 0 THEN [ok |-> FALSE, threw |-> FALSE, victim |-> INVALID_PAGE_ID, S |-> S]
           ELSE LET S1 == IF S.pages[f].is_dirty_ THEN FlushPage(S, page_id) ELSE S
                    S2 == [S1 EXCEPT !.pt[page_id] = NoFrame]
                IN  IF S2.store[f].present /\ ~S2.store[f].is_evictable_
                    THEN [ok |-> FALSE, threw |-> TRUE, victim |-> page_id, S |-> S2]
                    ELSE [ok |-> TRUE, threw |-> FALSE, victim |-> page_id,
                          S |-> [S2 EXCEPT !.size = IF S2.store[f].present THEN RemoveSize(S2.size) ELSE S2.size,
                                           !.store[f] = NoNode,
                                           !.fl = Append(S2.fl, f),
                                           !.pages[f] = EmptyPage]]

\* BufferPoolManager::DeletePage
DeletePage(page_id) ==
  LET r == DeletePageResult(BpmState, page_id)
  IN  /\ BpmCommit(r.S)
      /\ bpm_ret' = BpmRet("DeletePage", r.ok, r.threw, r.victim, page_id, FALSE)
      /\ UNCHANGED <<next_page_id_, k_, replacer_size_, lru_ret, durable, covered>>

\* the pages whose buffer the modelled client writes
WrittenPages == {0}

\* a client holding a pin writes bytes into the page buffer (Page::GetData)
WriteData(page_id, d) ==
  /\ page_id \in WrittenPages
  /\ page_table_[page_id] # NoFrame
  /\ pages_[page_table_[page_id]].pin_count_ > 0
  /\ pages_[page_table_[page_id]].data_ # d
  /\ pages_' = [pages_ EXCEPT ![page_table_[page_id]].data_ = d]
  /\ covered' = [covered EXCEPT ![page_id] = FALSE]
  /\ bpm_ret' = BpmRet("WriteData", TRUE, FALSE, INVALID_PAGE_ID, page_id, FALSE)
  /\ UNCHANGED <<page_table_, free_list_, next_page_id_, disk, durable, lruVars>>

(***************************************************************************)
(* FlushPage and FlushAllPages as a client calls them.  Neither takes      *)
(* latch_, so the statements of a flush interleave with the operations     *)
(* that other threads run under the mutex.                                 *)
(***************************************************************************)
\* pc: the statement the flushing thread is at; page_id: the argument of the
\* FlushPage it is in; all, todo: it is inside the loop of FlushAllPages with
\* these items still to visit; src: the page whose frame the last WritePage
\* read; raced: page_table_ was modified by another thread during the loop
NoFlush ==
  [pc |-> "idle", page_id |-> INVALID_PAGE_ID, all |-> FALSE, todo |-> {},
   src |-> INVALID_PAGE_ID, raced |-> FALSE]

\* page_table_[page_id] with std::unordered_map::operator[]: a missing key is
\* inserted with the value-initialised frame id 0
SubscriptFrame(pt, page_id) == IF pt[page_id] = NoFrame THEN 0 ELSE pt[page_id]
SubscriptTable(pt, page_id) == IF pt[page_id] = NoFrame THEN [pt EXCEPT ![page_id] = 0] ELSE pt

\* FlushPage, lines 109-111: the residency test
FlushPageCheck(page_id) ==
  /\ flusher.pc = "idle"
  /\ IF page_id = INVALID_PAGE_ID \/ page_table_[page_id] = NoFrame
     THEN /\ flusher' = [flusher EXCEPT !.page_id = page_id, !.src = INVALID_PAGE_ID]
          /\ bpm_ret' = BpmRet("FlushPage", FALSE, FALSE, INVALID_PAGE_ID, page_id, FALSE)
     ELSE /\ flusher' = [flusher EXCEPT !.pc = "write", !.page_id = page_id, !.src = INVALID_PAGE_ID]
          /\ UNCHANGED bpm_ret
  /\ UNCHANGED <<lruVars, pages_, page_table_, free_list_, next_page_id_, disk, durable, covered>>

\* FlushPage, line 112: WritePage(page_id, pages_[page_table_[page_id]].GetData())
FlushPageWrite ==
  /\ flusher.pc = "write"
  /\ LET f == SubscriptFrame(page_table_, flusher.page_id)
     IN  /\ page_table_' = SubscriptTable(page_table_, flusher.page_id)
         /\ disk' = [disk EXCEPT ![flusher.page_id] = pages_[f].data_]
         /\ flusher' = [flusher EXCEPT !.pc = "clear", !.src = pages_[f].page_id_]
  /\ UNCHANGED <<lruVars, pages_, free_list_, next_page_id_, bpm_ret, durable, covered>>

\* FlushPage, lines 113-114: the dirty flag is cleared and true is returned;
\* inside FlushAllPages the loop goes on
FlushPageClear ==
  /\ flusher.pc = "clear"
  /\ LET f == SubscriptFrame(page_table_, flusher.page_id)
     IN  /\ page_table_' = SubscriptTable(page_table_, flusher.page_id)
         /\ pages_' = [pages_ EXCEPT ![f].is_dirty_ = FALSE]
  /\ flusher' = [flusher EXCEPT !.pc = IF flusher.all THEN "loop" ELSE "idle"]
  /\ bpm_ret' = BpmRet("FlushPage", TRUE, FALSE, INVALID_PAGE_ID, flusher.page_id, FALSE)
  /\ UNCHANGED <<lruVars, free_list_, next_page_id_, disk, durable, covered>>

\* FlushAllPages, line 118: the loop starts at page_table_.begin()
FlushAllPagesBegin ==
  /\ flusher.pc = "idle"
  /\ flusher' = [flusher EXCEPT !.pc = "loop", !.all = TRUE, !.raced = FALSE,
                                !.todo = {p \in PageIds : page_table_[p] # NoFrame}]
  /\ UNCHANGED <<lruVars, bpmVars>>

\* FlushAllPages, lines 118-120: FlushPage(item.first) for the next item, or
\* the end of the loop
FlushAllPagesNext ==
  /\ flusher.pc = "loop"
  /\ IF flusher.todo = {}
     THEN flusher' = [flusher EXCEPT !.pc = "idle", !.all = FALSE]
     ELSE \E p \in flusher.todo :
            flusher' = [flusher EXCEPT !.todo = @ \ {p}, !.page_id = p, !.src = INVALID_PAGE_ID,
                                      !.pc = IF page_table_[p] = NoFrame THEN "loop" ELSE "write"]
  /\ UNCHANGED <<lruVars, bpmVars>>

\* an operation of another thread, run under latch_, while a flush may be in
\* progress: the loop of FlushAllPages sees page_table_ change under it
UnderFlush ==
  flusher' = [flusher EXCEPT !.raced = @ \/ (flusher.all /\ page_table_' # page_table_)]

(***************************************************************************)
(* Page guards over the buffer pool: BasicPageGuard, and ReadPageGuard and *)
(* WritePageGuard, whose move and Drop operations treat bpm_, page_ and    *)
(* is_dirty_ in the same way.  page_ is the frame the guard points to.     *)
(***************************************************************************)
GuardIds == 1 .. NumGuards

\* a guard object that does not exist (not constructed, or destroyed)
NoPageGuard == [live |-> FALSE, page_ |-> NoFrame, is_dirty_ |-> FALSE]
\* a guard whose bpm_ and page_ are nullptr
EmptyPageGuard == [live |-> TRUE, page_ |-> NoFrame, is_dirty_ |-> FALSE]

\* a Drop that forgets to clear page_, so that a later Drop or the destructor
\* unpins the page again
GuardDropResult_KeepsPage(S, g) ==
  [guard |-> [g EXCEPT !.live = TRUE],
   S     |-> IF g.page_ # NoFrame /\ S.pages[g.page_].page_id_ # INVALID_PAGE_ID
             THEN UnpinPageResult(S, S.pages[g.page_].page_id_, g.is_dirty_).S
             ELSE S]

\* Drop: UnpinPage(page_->GetPageId(), is_dirty_) when the guard holds a
\* page, then bpm_ = page_ = nullptr
GuardDropResult(S, g) ==
  [guard |-> EmptyPageGuard,
   S     |-> IF g.page_ # NoFrame /\ S.pages[g.page_].page_id_ # INVALID_PAGE_ID
             THEN UnpinPageResult(S, S.pages[g.page_].page_id_, g.is_dirty_).S
             ELSE S]

\* the move constructor: the new guard takes bpm_, page_ and is_dirty_, the
\* source is left with nullptr
GuardMoveResult(that) == [guard |-> [that EXCEPT !.live = TRUE], that |-> EmptyPageGuard]

\* operator=(that) for this # that: Drop(), then take over and empty that
GuardAssignResult(S, this, that) ==
  [guard |-> that, that |-> EmptyPageGuard, S |-> GuardDropResult(S, this).S]

\* NewPageGuarded: NewPage, then a guard over the returned page (nullptr when
\* NewPage found no frame); no guard is built when NewPage throws
NewPageGuarded(g) ==
  /\ ~page_guard_[g].live
  /\ \E order \in ScanOrders(BpmState) :
       LET r == NewPageResult(BpmState, next_page_id_, order)
       IN  /\ BpmCommit(r.S)
           /\ next_page_id_' = r.next
           /\ bpm_ret' = BpmRet("NewPage", r.ok, r.threw, r.victim, r.page_id, FALSE)
           /\ page_guard_' = IF r.threw THEN page_guard_
                             ELSE [page_guard_ EXCEPT ![g] =
                                     [live |-> TRUE, page_ |-> r.frame, is_dirty_ |-> FALSE]]
  /\ UNCHANGED <<k_, replacer_size_, lru_ret, durable, covered>>

\* FetchPageBasic(page_id): FetchPage, then a guard over the returned page
FetchPageBasic(g, page_id) ==
  /\ ~page_guard_[g].live
  /\ \E order \in (IF page_table_[page_id] # NoFrame THEN {<<>>} ELSE ScanOrders(BpmState)) :
       LET r == FetchPageResult(BpmState, page_id, order)
       IN  /\ BpmCommit(r.S)
           /\ bpm_ret' = BpmRet("FetchPage", r.ok, r.threw, r.victim, page_id, FALSE)
           /\ page_guard_' = IF r.threw THEN page_guard_
                             ELSE [page_guard_ EXCEPT ![g] =
                                     [live |-> TRUE, page_ |-> r.frame, is_dirty_ |-> FALSE]]
  /\ UNCHANGED <<next_page_id_, k_, replacer_size_, lru_ret, durable, covered>>

\* guard.Drop()
GuardDrop(g) ==
  /\ page_guard_[g].live
  /\ LET r == GuardDropResult(BpmState, page_guard_[g])
     IN  /\ BpmCommit(r.S)
         /\ page_guard_' = [page_guard_ EXCEPT ![g] = r.guard]
  /\ bpm_ret' = BpmRet("Drop", page_guard_[g].page_ # NoFrame, FALSE, INVALID_PAGE_ID, INVALID_PAGE_ID, FALSE)
  /\ UNCHANGED <<next_page_id_, k_, replacer_size_, lru_ret, durable, covered>>

\* ~guard: Drop(), and the object is gone
GuardDestroy(g) ==
  /\ page_guard_[g].live
  /\ BpmCommit(GuardDropResult(BpmState, page_guard_[g]).S)
  /\ page_guard_' = [page_guard_ EXCEPT ![g] = NoPageGuard]
  /\ bpm_ret' = BpmRet("Destroy", page_guard_[g].page_ # NoFrame, FALSE, INVALID_PAGE_ID, INVALID_PAGE_ID, FALSE)
  /\ UNCHANGED <<next_page_id_, k_, replacer_size_, lru_ret, durable, covered>>

\* a new guard g is move-constructed from that
GuardMoveConstruct(g, that) ==
  /\ ~page_guard_[g].live /\ page_guard_[that].live
  /\ LET r == GuardMoveResult(page_guard_[that])
     IN  page_guard_' = [page_guard_ EXCEPT ![g] = r.guard, ![that] = r.that]
  /\ bpm_ret' = BpmRet("Move", page_guard_[that].page_ # NoFrame, FALSE, INVALID_PAGE_ID, INVALID_PAGE_ID, FALSE)
  /\ UNCHANGED <<lruVars, pages_, page_table_, free_list_, next_page_id_, disk, durable, covered>>

\* g = std::move(that); self-assignment returns at once
GuardMoveAssign(g, that) ==
  /\ page_guard_[g].live /\ page_guard_[that].live
  /\ IF g = that
     THEN UNCHANGED <<page_guard_, lruVars, pages_, page_table_, free_list_, disk>>
     ELSE LET r == GuardAssignResult(BpmState, page_guard_[g], page_guard_[that])
          IN  /\ BpmCommit(r.S)
              /\ page_guard_' = [page_guard_ EXCEPT ![g] = r.guard, ![that] = r.that]
              /\ UNCHANGED <<k_, replacer_size_, lru_ret>>
  /\ bpm_ret' = BpmRet("Assign", page_guard_[g].page_ # NoFrame, FALSE, INVALID_PAGE_ID, INVALID_PAGE_ID, FALSE)
  /\ UNCHANGED <<next_page_id_, durable, covered>>

(***************************************************************************)
(* LockManager: table locks                                                *)
(***************************************************************************)
TxnIds == 0 .. (NumTxns - 1)
TableOids == 0 .. (NumTables - 1)

LockMode ==
  {"SHARED", "EXCLUSIVE", "INTENTION_SHARED", "INTENTION_EXCLUSIVE",
   "SHARED_INTENTION_EXCLUSIVE"}
IsolationLevel == {"READ_UNCOMMITTED", "REPEATABLE_READ", "READ_COMMITTED"}

\* the thread of a transaction is not blocked inside LockTable
NoWait == [oid |-> -1, upgrade |-> FALSE, notified |-> FALSE]

\* LockRequest(txn_id, lock_mode, oid); granted_ starts false
LockRequest(t, mode) == [txn_id_ |-> t, lock_mode_ |-> mode, granted_ |-> FALSE]

\* LockManager::AreLocksCompatible
AreLocksCompatible(l1, l2) ==
  CASE l1 = "SHARED" -> l2 \in {"INTENTION_SHARED", "SHARED"}
    [] l1 = "EXCLUSIVE" -> FALSE
    [] l1 = "INTENTION_SHARED" ->
         l2 \in {"INTENTION_SHARED", "INTENTION_EXCLUSIVE", "SHARED", "SHARED_INTENTION_EXCLUSIVE"}
    [] l1 = "INTENTION_EXCLUSIVE" -> l2 \in {"INTENTION_SHARED", "INTENTION_EXCLUSIVE"}
    [] l1 = "SHARED_INTENTION_EXCLUSIVE" -> l2 = "INTENTION_SHARED"
    [] OTHER -> FALSE

\* an upgrade test that admits every change of mode
CanLockUpgrade_AnyPair(curr_lock_mode, requested_lock_mode) ==
  curr_lock_mode # requested_lock_mode

\* LockManager::CanLockUpgrade
CanLockUpgrade(curr_lock_mode, requested_lock_mode) ==
  CASE curr_lock_mode \in {"SHARED", "INTENTION_EXCLUSIVE"} ->
         requested_lock_mode \in {"EXCLUSIVE", "SHARED_INTENTION_EXCLUSIVE"}
    [] curr_lock_mode = "INTENTION_SHARED" ->
         requested_lock_mode \in {"SHARED", "EXCLUSIVE", "INTENTION_EXCLUSIVE",
                                  "SHARED_INTENTION_EXCLUSIVE"}
    [] curr_lock_mode = "SHARED_INTENTION_EXCLUSIVE" -> requested_lock_mode = "EXCLUSIVE"
    [] OTHER -> FALSE

\* a validation that tests the transaction state before the isolation level
CanTxnTakeLock_StateFirst(state, level, lock_mode) ==
  IF state \in {"COMMITTED", "ABORTED"} THEN "false"
  ELSE IF state = "SHRINKING" /\ lock_mode \notin {"SHARED", "INTENTION_SHARED"}
  THEN "LOCK_ON_SHRINKING"
  ELSE IF level = "READ_UNCOMMITTED" /\ lock_mode \in {"SHARED", "INTENTION_SHARED", "SHARED_INTENTION_EXCLUSIVE"}
  THEN "LOCK_SHARED_ON_READ_UNCOMMITTED"
  ELSE "ok"

\* LockManager::CanTxnTakeLock: "false" for a finished transaction, an abort
\* reason when the isolation level forbids the request, "ok" otherwise
CanTxnTakeLock(state, level, lock_mode) ==
  IF state \in {"COMMITTED", "ABORTED"} THEN "false"
  ELSE IF level = "READ_UNCOMMITTED"
  THEN IF lock_mode \in {"SHARED", "INTENTION_SHARED", "SHARED_INTENTION_EXCLUSIVE"}
       THEN "LOCK_SHARED_ON_READ_UNCOMMITTED"
       ELSE IF state = "SHRINKING" THEN "LOCK_ON_SHRINKING" ELSE "ok"
  ELSE IF level = "READ_COMMITTED"
  THEN IF state = "SHRINKING" /\ lock_mode \notin {"SHARED", "INTENTION_SHARED"}
       THEN "LOCK_ON_SHRINKING" ELSE "ok"
  ELSE IF state = "SHRINKING" THEN "LOCK_ON_SHRINKING" ELSE "ok"

\* a grant check that looks only at the granted locks
GrantLock_IgnoresQueueOrder(t, mode, q) ==
  \A i \in 1 .. Len(q) : q[i].granted_ => AreLocksCompatible(q[i].lock_mode_, mode)

\* a grant check that looks only at the queue position
GrantLock_IgnoresHolders(t, mode, q) ==
  LET ungranted == {i \in 1 .. Len(q) : ~q[i].granted_}
  IN  ungranted = {} \/ q[CHOOSE i \in ungranted : \A j \in ungranted : i <= j].txn_id_ = t

\* LockManager::GrantLock: every granted request is compatible with the
\* requested mode and the first ungranted request belongs to the requester
GrantLock(t, mode, q) ==
  /\ \A i \in 1 .. Len(q) : q[i].granted_ => AreLocksCompatible(q[i].lock_mode_, mode)
  /\ LET ungranted == {i \in 1 .. Len(q) : ~q[i].granted_}
     IN  ungranted = {} \/ q[CHOOSE i \in ungranted : \A j \in ungranted : i <= j].txn_id_ = t

\* a bookkeeping that enters the table but never erases it
InsertOrDeleteTableLockSet_NeverErases(sets, mode, oid, insert) ==
  [sets EXCEPT ![mode] = IF insert THEN @ \cup {oid} ELSE @]

\* LockManager::InsertOrDeleteTableLockSet on the lock sets of one transaction
InsertOrDeleteTableLockSet(sets, mode, oid, insert) ==
  [sets EXCEPT ![mode] = IF insert THEN @ \cup {oid} ELSE @ \ {oid}]

\* std::list::remove of the request at position i
RemoveAt(q, i) == SubSeq(q, 1, i - 1) \o SubSeq(q, i + 1, Len(q))

\* std::list::insert before position i
InsertAt(q, i, r) == SubSeq(q, 1, i - 1) \o <<r>> \o SubSeq(q, i, Len(q))

\* position of the first request of transaction t in q, 0 when there is none
FindRequest(q, t) ==
  LET mine == {i \in 1 .. Len(q) : q[i].txn_id_ = t}
  IN  IF mine = {} THEN 0 ELSE CHOOSE i \in mine : \A j \in mine : i <= j

\* an upgrade position behind every request of the queue
FirstUngranted_Tail(q) == Len(q) + 1
\* position of the first ungranted request, Len(q) + 1 when all are granted
FirstUngranted(q) ==
  LET ungranted == {i \in 1 .. Len(q) : ~q[i].granted_}
  IN  IF ungranted = {} THEN Len(q) + 1 ELSE CHOOSE i \in ungranted : \A j \in ungranted : i <= j

\* the request of t in q marked granted
MarkGranted(q, t) ==
  [i \in 1 .. Len(q) |-> IF q[i].txn_id_ = t THEN [q[i] EXCEPT !.granted_ = TRUE] ELSE q[i]]

\* a notify_all that wakes nobody
NotifyAll_Nobody(w, oid) == w
\* a notify_one in the place of notify_all: one of the sleeping threads of
\* the queue is woken
NotifyAll_One(w, oid) ==
  LET ws == {u \in DOMAIN w : w[u].oid = oid}
  IN  IF ws = {} THEN w
      ELSE [w EXCEPT ![CHOOSE u \in ws : \A v \in ws : v <= u].notified = TRUE]
\* cv_.notify_all() of the queue of oid: every thread that sleeps in cv_.wait
\* of that queue has a wake-up pending
NotifyAll(w, oid) ==
  [u \in DOMAIN w |-> IF w[u].oid = oid THEN [w[u] EXCEPT !.notified = TRUE] ELSE w[u]]

\* what the last call returned; upgrade tells that the lock was granted on
\* the upgrade path of LockTable, woke that the call returned after cv_.wait
LmRet(op, t, mode, oid, ok, reason) ==
  [op |-> op, txn |-> t, mode |-> mode, oid |-> oid, ok |-> ok, reason |-> reason,
   upgrade |-> FALSE, woke |-> FALSE]

\* the transaction is aborted and TransactionAbortException(reason) is thrown
LockAbort(op, t, mode, oid, reason) ==
  /\ txn_state' = [txn_state EXCEPT ![t] = "ABORTED"]
  /\ lm_ret' = LmRet(op, t, mode, oid, FALSE, reason)

\* an enqueue that does not clear the upgrading slot when the upgrade is
\* granted at once
LockTableEnqueued_KeepsUpgrading(t, lock_mode, oid, q, sets, upgrade) ==
  IF GrantLock(t, lock_mode, q)
  THEN /\ request_queue_' = [request_queue_ EXCEPT ![oid] = MarkGranted(q, t)]
       /\ upgrading_' = IF upgrade THEN [upgrading_ EXCEPT ![oid] = t] ELSE upgrading_
       /\ table_lock_set' = [table_lock_set EXCEPT ![t] = InsertOrDeleteTableLockSet(sets, lock_mode, oid, TRUE)]
       /\ lm_ret' = [LmRet("LockTable", t, lock_mode, oid, TRUE, "none") EXCEPT !.upgrade = upgrade]
       /\ waiting' = IF lock_mode # "EXCLUSIVE" THEN NotifyAll(waiting, oid) ELSE waiting
       /\ UNCHANGED txn_state
  ELSE /\ request_queue_' = [request_queue_ EXCEPT ![oid] = q]
       /\ upgrading_' = IF upgrade THEN [upgrading_ EXCEPT ![oid] = t] ELSE upgrading_
       /\ table_lock_set' = [table_lock_set EXCEPT ![t] = sets]
       /\ waiting' = [waiting EXCEPT ![t] = [oid |-> oid, upgrade |-> upgrade, notified |-> FALSE]]
       /\ lm_ret' = LmRet("LockTableWait", t, lock_mode, oid, FALSE, "none")
       /\ UNCHANGED txn_state

\* LockTable from the queue scan to the first GrantLock of the wait loop, for
\* the queue q that already holds the new request of t
LockTableEnqueued(t, lock_mode, oid, q, sets, upgrade) ==
  IF GrantLock(t, lock_mode, q)
  THEN /\ request_queue_' = [request_queue_ EXCEPT ![oid] = MarkGranted(q, t)]
       /\ upgrading_' = IF upgrade THEN [upgrading_ EXCEPT ![oid] = INVALID_TXN_ID] ELSE upgrading_
       /\ table_lock_set' = [table_lock_set EXCEPT ![t] = InsertOrDeleteTableLockSet(sets, lock_mode, oid, TRUE)]
       /\ lm_ret' = [LmRet("LockTable", t, lock_mode, oid, TRUE, "none") EXCEPT !.upgrade = upgrade]
       /\ waiting' = IF lock_mode # "EXCLUSIVE" THEN NotifyAll(waiting, oid) ELSE waiting
       /\ UNCHANGED txn_state
  ELSE /\ request_queue_' = [request_queue_ EXCEPT ![oid] = q]
       /\ upgrading_' = IF upgrade THEN [upgrading_ EXCEPT ![oid] = t] ELSE upgrading_
       /\ table_lock_set' = [table_lock_set EXCEPT ![t] = sets]
       /\ waiting' = [waiting EXCEPT ![t] = [oid |-> oid, upgrade |-> upgrade, notified |-> FALSE]]
       /\ lm_ret' = LmRet("LockTableWait", t, lock_mode, oid, FALSE, "none")
       /\ UNCHANGED txn_state

\* LockManager::LockTable up to its return or its first cv_.wait
LockTable(t, lock_mode, oid) ==
  /\ waiting[t] = NoWait
  /\ LET can == CanTxnTakeLock(txn_state[t], isolation_level[t], lock_mode)
         q   == request_queue_[oid]
         i   == FindRequest(q, t)
     IN  IF can = "false"
         THEN /\ lm_ret' = LmRet("LockTable", t, lock_mode, oid, FALSE, "none")
              /\ UNCHANGED <<request_queue_, upgrading_, txn_state, table_lock_set, waiting>>
         ELSE IF can # "ok"
         THEN /\ LockAbort("LockTable", t, lock_mode, oid, can)
              /\ UNCHANGED <<request_queue_, upgrading_, table_lock_set, waiting>>
         ELSE IF i # 0
         THEN IF q[i].lock_mode_ = lock_mode
              THEN /\ lm_ret' = LmRet("LockTable", t, lock_mode, oid, TRUE, "none")
                   /\ UNCHANGED <<request_queue_, upgrading_, txn_state, table_lock_set, waiting>>
              ELSE IF upgrading_[oid] # INVALID_TXN_ID
              THEN /\ LockAbort("LockTable", t, lock_mode, oid, "UPGRADE_CONFLICT")
                   /\ UNCHANGED <<request_queue_, upgrading_, table_lock_set, waiting>>
              ELSE IF ~CanLockUpgrade(q[i].lock_mode_, lock_mode)
              THEN /\ LockAbort("LockTable", t, lock_mode, oid, "INCOMPATIBLE_UPGRADE")
                   /\ UNCHANGED <<request_queue_, upgrading_, table_lock_set, waiting>>
              ELSE LET q1 == RemoveAt(q, i)
                       q2 == InsertAt(q1, FirstUngranted(q1), LockRequest(t, lock_mode))
                       s1 == InsertOrDeleteTableLockSet(table_lock_set[t], q[i].lock_mode_, oid, FALSE)
                   IN  LockTableEnqueued(t, lock_mode, oid, q2, s1, TRUE)
         ELSE LockTableEnqueued(t, lock_mode, oid, Append(q, LockRequest(t, lock_mode)),
                                table_lock_set[t], FALSE)

\* LockManager::LockTable after cv_.wait returned (notified or spuriously):
\* an aborted transaction withdraws its request and returns false, otherwise
\* the loop tests GrantLock again and, when that fails, waits again
LockTableWake(t) ==
  /\ waiting[t] # NoWait
  /\ LET oid == waiting[t].oid
         q   == request_queue_[oid]
         me  == CHOOSE j \in 1 .. Len(q) : q[j].txn_id_ = t /\ ~q[j].granted_
     IN  IF txn_state[t] = "ABORTED"
         THEN /\ request_queue_' = [request_queue_ EXCEPT ![oid] = RemoveAt(q, me)]
              /\ upgrading_' = IF waiting[t].upgrade THEN [upgrading_ EXCEPT ![oid] = INVALID_TXN_ID]
                               ELSE upgrading_
              /\ waiting' = [NotifyAll(waiting, oid) EXCEPT ![t] = NoWait]
              /\ lm_ret' = [LmRet("LockTable", t, q[me].lock_mode_, oid, FALSE, "none")
                              EXCEPT !.woke = TRUE]
              /\ UNCHANGED <<txn_state, table_lock_set>>
         ELSE IF GrantLock(t, q[me].lock_mode_, q)
         THEN /\ request_queue_' = [request_queue_ EXCEPT ![oid] = MarkGranted(q, t)]
              /\ upgrading_' = IF waiting[t].upgrade THEN [upgrading_ EXCEPT ![oid] = INVALID_TXN_ID]
                               ELSE upgrading_
              /\ table_lock_set' = [table_lock_set EXCEPT
                                      ![t] = InsertOrDeleteTableLockSet(@, q[me].lock_mode_, oid, TRUE)]
              /\ waiting' = [(IF q[me].lock_mode_ # "EXCLUSIVE" THEN NotifyAll(waiting, oid) ELSE waiting)
                               EXCEPT ![t] = NoWait]
              /\ lm_ret' = [LmRet("LockTable", t, q[me].lock_mode_, oid, TRUE, "none")
                              EXCEPT !.upgrade = waiting[t].upgrade, !.woke = TRUE]
              /\ UNCHANGED txn_state
         ELSE /\ waiting[t].notified
              /\ waiting' = [waiting EXCEPT ![t].notified = FALSE]
              /\ UNCHANGED <<request_queue_, upgrading_, txn_state, table_lock_set, lm_ret>>

\* an unlock after which every release of a shared lock ends the growing phase
UnlockState_SharedAlwaysShrinks(state, level, lock_mode) ==
  IF lock_mode \in {"SHARED", "EXCLUSIVE"} THEN "SHRINKING" ELSE state

\* txn_state after a successful UnlockTable of a lock held in lock_mode
UnlockState(state, level, lock_mode) ==
  IF level = "REPEATABLE_READ"
  THEN IF lock_mode \in {"SHARED", "EXCLUSIVE"} THEN "SHRINKING" ELSE state
  ELSE IF lock_mode = "EXCLUSIVE" THEN "SHRINKING" ELSE state

\* an unlock that releases whatever request of the caller it finds, granted
\* or not
UnlockTable_AcceptsUngranted(t, oid) ==
  /\ LET q == request_queue_[oid]
         i == FindRequest(q, t)
     IN  IF i = 0
         THEN /\ LockAbort("UnlockTable", t, "none", oid, "ATTEMPTED_UNLOCK_BUT_NO_LOCK_HELD")
              /\ UNCHANGED <<request_queue_, upgrading_, table_lock_set, waiting>>
         ELSE /\ txn_state' = [txn_state EXCEPT ![t] = UnlockState(@, isolation_level[t], q[i].lock_mode_)]
              /\ table_lock_set' = [table_lock_set EXCEPT
                                      ![t] = InsertOrDeleteTableLockSet(@, q[i].lock_mode_, oid, FALSE)]
              /\ request_queue_' = [request_queue_ EXCEPT ![oid] = RemoveAt(q, i)]
              /\ waiting' = NotifyAll(waiting, oid)
              /\ lm_ret' = LmRet("UnlockTable", t, q[i].lock_mode_, oid, TRUE, "none")
              /\ UNCHANGED upgrading_

\* LockManager::UnlockTable; LockRow never enters a row lock set, so the
\* row-lock test of lines 144-158 finds nothing.  The call may come while a
\* LockTable call of the same transaction is blocked in another thread: it
\* then meets the ungranted request (line 128)
UnlockTable(t, oid) ==
  /\ LET q == request_queue_[oid]
         i == FindRequest(q, t)
     IN  IF i = 0 \/ ~q[i].granted_
         THEN /\ LockAbort("UnlockTable", t, "none", oid, "ATTEMPTED_UNLOCK_BUT_NO_LOCK_HELD")
              /\ UNCHANGED <<request_queue_, upgrading_, table_lock_set, waiting>>
         ELSE /\ txn_state' = [txn_state EXCEPT ![t] = UnlockState(@, isolation_level[t], q[i].lock_mode_)]
              /\ table_lock_set' = [table_lock_set EXCEPT
                                      ![t] = InsertOrDeleteTableLockSet(@, q[i].lock_mode_, oid, FALSE)]
              /\ request_queue_' = [request_queue_ EXCEPT ![oid] = RemoveAt(q, i)]
              /\ waiting' = NotifyAll(waiting, oid)
              /\ lm_ret' = LmRet("UnlockTable", t, q[i].lock_mode_, oid, TRUE, "none")
              /\ UNCHANGED upgrading_

\* another thread (the transaction manager or the deadlock detector) sets a
\* transaction that waits for a lock to ABORTED
AbortWaiting(t) ==
  /\ waiting[t] # NoWait
  /\ txn_state[t] # "ABORTED"
  /\ txn_state' = [txn_state EXCEPT ![t] = "ABORTED"]
  /\ lm_ret' = LmRet("Abort", t, "none", waiting[t].oid, TRUE, "none")
  /\ UNCHANGED <<request_queue_, upgrading_, table_lock_set, waiting>>

RowIds == 0 .. (NumRows - 1)

\* LockManager::LockRow: returns true, whatever the arguments
LockRow(t, lock_mode, oid, rid) ==
  /\ lm_ret' = LmRet("LockRow", t, lock_mode, oid, TRUE, "none")
  /\ UNCHANGED <<request_queue_, upgrading_, txn_state, table_lock_set, waiting>>

\* LockManager::UnlockRow: returns true, whatever the arguments
UnlockRow(t, oid, rid, force) ==
  /\ lm_ret' = LmRet("UnlockRow", t, "none", oid, TRUE, "none")
  /\ UNCHANGED <<request_queue_, upgrading_, txn_state, table_lock_set, waiting>>

\* LockManager::HasCycle: returns false and leaves *txn_id as it was
HasCycle ==
  /\ lm_ret' = LmRet("HasCycle", INVALID_TXN_ID, "none", -1, FALSE, "none")
  /\ UNCHANGED <<request_queue_, upgrading_, txn_state, table_lock_set, waiting>>

\* one round of the loop of LockManager::RunCycleDetection: it sleeps and
\* does nothing else
RunCycleDetection ==
  UNCHANGED <<request_queue_, upgrading_, txn_state, table_lock_set, waiting, lm_ret>>

(***************************************************************************)
(* LockTable and UnlockTable with their mutexes.  A thread is named by its *)
(* transaction.  std::mutex::lock blocks while another thread owns the     *)
(* mutex, so a step that locks is enabled only when the mutex is free.     *)
(* The statements a thread runs between locking a queue's latch_ and       *)
(* releasing it, with nothing locked in between, are one step.             *)
(***************************************************************************)
NoCall == [mode |-> "none", oid |-> -1]

\* no thread owns this mutex
Unlocked == INVALID_TXN_ID

\* LockTable, lock_manager.cpp:23-25: CanTxnTakeLock is asked before any
\* mutex is touched; a refused call ends here
LockTableCall(t, lock_mode, oid) ==
  /\ lm_pc[t] = "idle"
  /\ waiting[t] = NoWait
  /\ IF CanTxnTakeLock(txn_state[t], isolation_level[t], lock_mode) # "ok"
     THEN /\ LockTable(t, lock_mode, oid)
          /\ UNCHANGED mutexVars
     ELSE /\ lm_pc' = [lm_pc EXCEPT ![t] = "lock_map"]
          /\ lm_call' = [lm_call EXCEPT ![t] = [mode |-> lock_mode, oid |-> oid]]
          /\ UNCHANGED <<table_lock_map_latch_, latch_>>
          /\ UNCHANGED <<request_queue_, upgrading_, txn_state, table_lock_set, waiting, lm_ret>>

\* LockTable, lock_manager.cpp:27-31: table_lock_map_latch_.lock() and the
\* look-up of the queue
LockTableLockMap(t) ==
  /\ lm_pc[t] = "lock_map"
  /\ table_lock_map_latch_ = Unlocked
  /\ table_lock_map_latch_' = t
  /\ lm_pc' = [lm_pc EXCEPT ![t] = "lock_queue"]
  /\ UNCHANGED <<latch_, lm_call>>
  /\ UNCHANGED <<request_queue_, upgrading_, txn_state, table_lock_set, waiting, lm_ret>>

\* LockTable, lock_manager.cpp:32-114: latch_.lock() of the queue while
\* table_lock_map_latch_ is still owned, table_lock_map_latch_.unlock(), and
\* the call up to its return or its cv_.wait, both of which release latch_
LockTableLockQueue(t) ==
  /\ lm_pc[t] = "lock_queue"
  /\ latch_[lm_call[t].oid] = Unlocked
  /\ LockTable(t, lm_call[t].mode, lm_call[t].oid)
  /\ table_lock_map_latch_' = Unlocked
  /\ lm_pc' = [lm_pc EXCEPT ![t] = IF waiting'[t] = NoWait THEN "idle" ELSE "wait"]
  /\ lm_call' = [lm_call EXCEPT ![t] = IF waiting'[t] = NoWait THEN NoCall ELSE @]
  /\ UNCHANGED latch_

\* LockTable, lock_manager.cpp:70-78 and 98-105: cv_.wait returns with
\* latch_ locked again; the call returns or waits again and releases latch_
LockTableWakeLocked(t) ==
  /\ lm_pc[t] = "wait"
  /\ latch_[lm_call[t].oid] = Unlocked
  /\ LockTableWake(t)
  /\ lm_pc' = [lm_pc EXCEPT ![t] = IF waiting'[t] = NoWait THEN "idle" ELSE "wait"]
  /\ lm_call' = [lm_call EXCEPT ![t] = IF waiting'[t] = NoWait THEN NoCall ELSE @]
  /\ UNCHANGED <<table_lock_map_latch_, latch_>>

\* UnlockTable, lock_manager.cpp:120: GetTableLockRequestQueue locks
\* table_lock_map_latch_ for the look-up and unlocks it (lock_manager.h:477-487)
UnlockTableCall(t, oid) ==
  /\ lm_pc[t] = "idle"
  /\ waiting[t] = NoWait
  /\ table_lock_map_latch_ = Unlocked
  /\ lm_pc' = [lm_pc EXCEPT ![t] = "unlock_queue"]
  /\ lm_call' = [lm_call EXCEPT ![t] = [mode |-> "none", oid |-> oid]]
  /\ UNCHANGED <<table_lock_map_latch_, latch_>>
  /\ UNCHANGED <<request_queue_, upgrading_, txn_state, table_lock_set, waiting, lm_ret>>

\* UnlockTable, lock_manager.cpp:122-137 and 192-195: the lock_guard locks
\* latch_; without a granted request of the caller the call throws, which
\* releases latch_, otherwise it goes on to line 142 with latch_ owned
UnlockTableLockQueue(t) ==
  /\ lm_pc[t] = "unlock_queue"
  /\ latch_[lm_call[t].oid] = Unlocked
  /\ LET q == request_queue_[lm_call[t].oid]
         i == FindRequest(q, t)
     IN  IF i = 0 \/ ~q[i].granted_
         THEN /\ UnlockTable(t, lm_call[t].oid)
              /\ lm_pc' = [lm_pc EXCEPT ![t] = "idle"]
              /\ lm_call' = [lm_call EXCEPT ![t] = NoCall]
              /\ UNCHANGED <<table_lock_map_latch_, latch_>>
         ELSE /\ latch_' = [latch_ EXCEPT ![lm_call[t].oid] = t]
              /\ lm_pc' = [lm_pc EXCEPT ![t] = "unlock_map"]
              /\ UNCHANGED <<table_lock_map_latch_, lm_call>>
              /\ UNCHANGED <<request_queue_, upgrading_, txn_state, table_lock_set, waiting, lm_ret>>

\* UnlockTable, lock_manager.cpp:142-189: table_lock_map_latch_.lock() while
\* latch_ is owned, the look at the row lock sets, table_lock_map_latch_
\* .unlock(), the release of the table lock, and the return that releases
\* latch_
UnlockTableLockMap(t) ==
  /\ lm_pc[t] = "unlock_map"
  /\ table_lock_map_latch_ = Unlocked
  /\ UnlockTable(t, lm_call[t].oid)
  /\ latch_' = [latch_ EXCEPT ![lm_call[t].oid] = Unlocked]
  /\ lm_pc' = [lm_pc EXCEPT ![t] = "idle"]
  /\ lm_call' = [lm_call EXCEPT ![t] = NoCall]
  /\ UNCHANGED table_lock_map_latch_

(***************************************************************************)
(* Page guards and the BPlusTree entry points.                             *)
(*                                                                         *)
(* Every operation is a thread that interleaves with the others at each    *)
(* buffer pool call and at each page latch operation.  The header page is  *)
(* page 0; it was created with NewPage and fetched once by the BPlusTree   *)
(* constructor, which stored INVALID_PAGE_ID as root_page_id_.             *)
(***************************************************************************)
Threads == 1 .. NumThreads
NoThread == 0
Keys == 1 .. MaxKey
Values == 1 .. MaxVal
NoValue == 0
header_page_id_ == 0

\* leaf_max_size and internal_max_size the tree is constructed with
leaf_max_size_ == 3
internal_max_size_ == 3

\* a guard that holds no page
NoGuard == [page_id |-> INVALID_PAGE_ID, pinned |-> FALSE, latched |-> FALSE, is_dirty_ |-> FALSE]

NoOp == [op |-> "none", key |-> 0, value |-> NoValue, expect |-> NoValue, empty |-> FALSE]
NoRet ==
  [op |-> "none", key |-> 0, ok |-> FALSE, threw |-> FALSE, value |-> NoValue,
   expect |-> NoValue, stable |-> TRUE, pins |-> 0]

\* a leaf page right after BPlusTreeLeafPage::Init
EmptyLeaf ==
  [is_leaf |-> TRUE, keys |-> <<>>, values |-> <<>>, children |-> <<>>,
   next_page_id_ |-> INVALID_PAGE_ID]

\* the leaf reached from page p by always following the first child
RECURSIVE LeftmostLeaf(_)
LeftmostLeaf(p) ==
  IF p = INVALID_PAGE_ID \/ tree_pages_[p].is_leaf THEN p
  ELSE LeftmostLeaf(tree_pages_[p].children[1])

\* the keys met by following next_page_id_ from leaf p
RECURSIVE LeafChain(_)
LeafChain(p) ==
  IF p = INVALID_PAGE_ID THEN <<>>
  ELSE tree_pages_[p].keys \o LeafChain(tree_pages_[p].next_page_id_)

\* Page::WLatch can be taken
WLatchFree == rwlatch_.w = NoThread /\ rwlatch_.r = {}
\* Page::RLatch can be taken
RLatchFree == rwlatch_.w = NoThread

\* BufferPoolManager::FetchPage(header_page_id_) as called by FetchPageRead
\* and FetchPageWrite; the header page is resident
FetchHeader ==
  BpmCommit(FetchPageResult(BpmState, header_page_id_, <<>>).S)

\* BufferPoolManager::UnpinPage(header_page_id_, is_dirty) as called by Drop
UnpinHeader(is_dirty) ==
  BpmCommit(UnpinPageResult(BpmState, header_page_id_, is_dirty).S)

\* what a tree step leaves alone in the buffer pool and the replacer
TreeBpmRest == UNCHANGED <<next_page_id_, k_, replacer_size_, lru_ret, bpm_ret, durable, covered>>

\* a tree step that makes no buffer pool call
TreeNoBpm == UNCHANGED <<lruVars, bpmVars>>

\* BPlusTree::Insert, line 70: FetchPageWrite(header_page_id_) pins the header
StartInsert(t, key, value) ==
  /\ pc[t] = "idle"
  /\ ops_started < MaxTreeOps
  /\ FetchHeader
  /\ TreeBpmRest
  /\ pc' = [pc EXCEPT ![t] = "ins_wlatch"]
  /\ cur' = [cur EXCEPT ![t] = [op |-> "Insert", key |-> key, value |-> value,
                                expect |-> inserted[key], empty |-> FALSE]]
  /\ pins_' = [pins_ EXCEPT ![t] = 1]
  /\ ops_started' = ops_started + 1
  /\ UNCHANGED <<rwlatch_, guard_, tree_ret, inserted, root_page_id_, tree_pages_>>

\* BPlusTree::Insert, lines 70-73: the header's write latch is taken, the
\* guard moves into ctx.header_page_; AsMut marks the guard dirty
InsertWLatch(t) ==
  /\ pc[t] = "ins_wlatch"
  /\ WLatchFree
  /\ rwlatch_' = [rwlatch_ EXCEPT !.w = t]
  /\ guard_' = [guard_ EXCEPT ![t] = [page_id |-> header_page_id_, pinned |-> TRUE,
                                      latched |-> TRUE, is_dirty_ |-> TRUE]]
  /\ pc' = [pc EXCEPT ![t] = "ins_refetch"]
  /\ TreeNoBpm
  /\ UNCHANGED <<cur, pins_, ops_started, tree_ret, inserted, root_page_id_, tree_pages_>>

\* CreateTree (empty tree) or TranverseTreeWithWLatch (otherwise) starts with
\* FetchPageWrite(header_page_id_) again: the header is pinned a second time
InsertRefetch(t) ==
  /\ pc[t] = "ins_refetch"
  /\ FetchHeader
  /\ TreeBpmRest
  /\ pins_' = [pins_ EXCEPT ![t] = pins_[t] + 1]
  /\ pc' = [pc EXCEPT ![t] = "ins_relock"]
  /\ UNCHANGED <<cur, rwlatch_, guard_, ops_started, tree_ret, inserted, root_page_id_, tree_pages_>>

\* Page::WLatch on the latch the thread already owns (std::shared_mutex::lock
\* by the owner is undefined): the build that detects it raises
\* std::system_error before a guard for the second pin exists
InsertRelockThrow(t) ==
  /\ pc[t] = "ins_relock"
  /\ rwlatch_.w = t
  /\ pc' = [pc EXCEPT ![t] = "ins_unwind"]
  /\ TreeNoBpm
  /\ UNCHANGED <<cur, rwlatch_, guard_, pins_, ops_started, tree_ret, inserted, root_page_id_, tree_pages_>>

\* the same call on a build that does not detect it: the thread waits for
\* itself forever
InsertRelockHang(t) ==
  /\ pc[t] = "ins_relock"
  /\ rwlatch_.w = t
  /\ pc' = [pc EXCEPT ![t] = "hung"]
  /\ TreeNoBpm
  /\ UNCHANGED <<cur, rwlatch_, guard_, pins_, ops_started, tree_ret, inserted, root_page_id_, tree_pages_>>

\* WritePageGuard::Drop, line 96, run by the destructor of ctx.header_page_
\* while the exception leaves Insert: the page is unpinned first
WriteDropUnpin(t) ==
  /\ pc[t] = "ins_unwind"
  /\ UnpinHeader(guard_[t].is_dirty_)
  /\ TreeBpmRest
  /\ guard_' = [guard_ EXCEPT ![t].pinned = FALSE]
  /\ pins_' = [pins_ EXCEPT ![t] = pins_[t] - 1]
  /\ pc' = [pc EXCEPT ![t] = "ins_unlatch"]
  /\ UNCHANGED <<cur, rwlatch_, ops_started, tree_ret, inserted, root_page_id_, tree_pages_>>

\* WritePageGuard::Drop, line 97: the write latch is released after the unpin;
\* the exception then reaches the caller of Insert
WriteDropUnlatch(t) ==
  /\ pc[t] = "ins_unlatch"
  /\ rwlatch_' = [rwlatch_ EXCEPT !.w = NoThread]
  /\ guard_' = [guard_ EXCEPT ![t] = NoGuard]
  /\ tree_ret' = [tree_ret EXCEPT ![t] =
                    [op |-> "Insert", key |-> cur[t].key, ok |-> FALSE, threw |-> TRUE,
                     value |-> NoValue, expect |-> cur[t].expect,
                     stable |-> (inserted[cur[t].key] = cur[t].expect), pins |-> pins_[t]]]
  /\ inserted' = IF inserted[cur[t].key] = NoValue
                 THEN [inserted EXCEPT ![cur[t].key] = cur[t].value]
                 ELSE inserted
  /\ cur' = [cur EXCEPT ![t] = NoOp]
  /\ pc' = [pc EXCEPT ![t] = "idle"]
  /\ TreeNoBpm
  /\ UNCHANGED <<pins_, ops_started, root_page_id_, tree_pages_>>

\* BPlusTree::GetValue, line 44: IsEmpty pins the header (FetchPageRead)
StartGetValue(t, key) ==
  /\ pc[t] = "idle"
  /\ ops_started < MaxTreeOps
  /\ FetchHeader
  /\ TreeBpmRest
  /\ pc' = [pc EXCEPT ![t] = "emp_rlatch"]
  /\ cur' = [cur EXCEPT ![t] = [op |-> "GetValue", key |-> key, value |-> NoValue,
                                expect |-> inserted[key], empty |-> FALSE]]
  /\ pins_' = [pins_ EXCEPT ![t] = 1]
  /\ ops_started' = ops_started + 1
  /\ UNCHANGED <<rwlatch_, guard_, tree_ret, inserted, root_page_id_, tree_pages_>>

\* BPlusTree::Remove, line 145: IsEmpty pins the header (FetchPageRead)
StartRemove(t, key) ==
  /\ pc[t] = "idle"
  /\ ops_started < MaxTreeOps
  /\ FetchHeader
  /\ TreeBpmRest
  /\ pc' = [pc EXCEPT ![t] = "emp_rlatch"]
  /\ cur' = [cur EXCEPT ![t] = [op |-> "Remove", key |-> key, value |-> NoValue,
                                expect |-> inserted[key], empty |-> FALSE]]
  /\ pins_' = [pins_ EXCEPT ![t] = 1]
  /\ ops_started' = ops_started + 1
  /\ UNCHANGED <<rwlatch_, guard_, tree_ret, inserted, root_page_id_, tree_pages_>>

\* the key Begin() has to stand on: the smallest key the calls made so far
\* must have left in the tree, NoValue when there is none
FirstKey ==
  IF \E k \in Keys : inserted[k] # NoValue
  THEN CHOOSE k \in Keys : inserted[k] # NoValue /\ \A j \in Keys : inserted[j] # NoValue => k <= j
  ELSE NoValue

\* BPlusTree::Begin(), line 276: IsEmpty pins the header (FetchPageRead)
StartBegin(t) ==
  /\ pc[t] = "idle"
  /\ ops_started < MaxTreeOps
  /\ FetchHeader
  /\ TreeBpmRest
  /\ pc' = [pc EXCEPT ![t] = "emp_rlatch"]
  /\ cur' = [cur EXCEPT ![t] = [op |-> "Begin", key |-> 0, value |-> NoValue,
                                expect |-> FirstKey, empty |-> FALSE]]
  /\ pins_' = [pins_ EXCEPT ![t] = 1]
  /\ ops_started' = ops_started + 1
  /\ UNCHANGED <<rwlatch_, guard_, tree_ret, inserted, root_page_id_, tree_pages_>>

\* BPlusTree::IsEmpty, lines 30-32: the header's read latch is taken and
\* root_page_id_ is compared with INVALID_PAGE_ID
IsEmptyRLatch(t) ==
  /\ pc[t] = "emp_rlatch"
  /\ RLatchFree
  /\ rwlatch_' = [rwlatch_ EXCEPT !.r = @ \cup {t}]
  /\ guard_' = [guard_ EXCEPT ![t] = [page_id |-> header_page_id_, pinned |-> TRUE,
                                      latched |-> TRUE, is_dirty_ |-> FALSE]]
  /\ cur' = [cur EXCEPT ![t].empty = (root_page_id_ = INVALID_PAGE_ID)]
  /\ pc' = [pc EXCEPT ![t] = "emp_unpin"]
  /\ TreeNoBpm
  /\ UNCHANGED <<pins_, ops_started, tree_ret, inserted, root_page_id_, tree_pages_>>

\* ReadPageGuard::Drop, line 64, run by the destructor of header_page_guard
\* when IsEmpty returns: the page is unpinned first
ReadDropUnpin(t) ==
  /\ pc[t] = "emp_unpin"
  /\ UnpinHeader(guard_[t].is_dirty_)
  /\ TreeBpmRest
  /\ guard_' = [guard_ EXCEPT ![t].pinned = FALSE]
  /\ pins_' = [pins_ EXCEPT ![t] = pins_[t] - 1]
  /\ pc' = [pc EXCEPT ![t] = "emp_unlatch"]
  /\ UNCHANGED <<cur, rwlatch_, ops_started, tree_ret, inserted, root_page_id_, tree_pages_>>

\* ReadPageGuard::Drop, line 65: the read latch is released after the unpin.
\* IsEmpty returned true (root_page_id_ is INVALID_PAGE_ID in every state that
\* Insert can produce), so GetValue returns false, Remove returns and Begin
\* returns the end iterator (ok = FALSE, no key under the iterator).
ReadDropUnlatch(t) ==
  /\ pc[t] = "emp_unlatch"
  /\ cur[t].empty
  /\ rwlatch_' = [rwlatch_ EXCEPT !.r = @ \ {t}]
  /\ guard_' = [guard_ EXCEPT ![t] = NoGuard]
  /\ tree_ret' = [tree_ret EXCEPT ![t] =
                    [op |-> cur[t].op, key |-> cur[t].key, ok |-> FALSE, threw |-> FALSE,
                     value |-> NoValue, expect |-> cur[t].expect,
                     stable |-> IF cur[t].op = "Begin" THEN FirstKey = cur[t].expect
                                ELSE inserted[cur[t].key] = cur[t].expect,
                     pins |-> pins_[t]]]
  /\ inserted' = IF cur[t].op = "Remove"
                 THEN [inserted EXCEPT ![cur[t].key] = NoValue]
                 ELSE inserted
  /\ cur' = [cur EXCEPT ![t] = NoOp]
  /\ pc' = [pc EXCEPT ![t] = "idle"]
  /\ TreeNoBpm
  /\ UNCHANGED <<pins_, ops_started, root_page_id_, tree_pages_>>

\* BPlusTree::Begin(key), line 291: FetchPageRead(header_page_id_) pins the
\* header; there is no IsEmpty test
StartBeginKey(t, key) ==
  /\ pc[t] = "idle"
  /\ ops_started < MaxTreeOps
  /\ FetchHeader
  /\ TreeBpmRest
  /\ pc' = [pc EXCEPT ![t] = "bk_rlatch"]
  /\ cur' = [cur EXCEPT ![t] = [op |-> "BeginKey", key |-> key, value |-> NoValue,
                                expect |-> inserted[key], empty |-> FALSE]]
  /\ pins_' = [pins_ EXCEPT ![t] = 1]
  /\ ops_started' = ops_started + 1
  /\ UNCHANGED <<rwlatch_, guard_, tree_ret, inserted, root_page_id_, tree_pages_>>

\* BPlusTree::Begin(key), lines 291-293: the header's read latch is taken and
\* ctx.root_page_id_ is read; empty tells that it is INVALID_PAGE_ID
BeginKeyRLatch(t) ==
  /\ pc[t] = "bk_rlatch"
  /\ RLatchFree
  /\ rwlatch_' = [rwlatch_ EXCEPT !.r = @ \cup {t}]
  /\ guard_' = [guard_ EXCEPT ![t] = [page_id |-> header_page_id_, pinned |-> TRUE,
                                      latched |-> TRUE, is_dirty_ |-> FALSE]]
  /\ cur' = [cur EXCEPT ![t].empty = (root_page_id_ = INVALID_PAGE_ID)]
  /\ pc' = [pc EXCEPT ![t] = "bk_unpin"]
  /\ TreeNoBpm
  /\ UNCHANGED <<pins_, ops_started, tree_ret, inserted, root_page_id_, tree_pages_>>

\* BPlusTree::Begin(key), line 294, guard.Drop(): ReadPageGuard::Drop unpins
\* the header first
BeginKeyDropUnpin(t) ==
  /\ pc[t] = "bk_unpin"
  /\ UnpinHeader(guard_[t].is_dirty_)
  /\ TreeBpmRest
  /\ guard_' = [guard_ EXCEPT ![t].pinned = FALSE]
  /\ pins_' = [pins_ EXCEPT ![t] = pins_[t] - 1]
  /\ pc' = [pc EXCEPT ![t] = "bk_unlatch"]
  /\ UNCHANGED <<cur, rwlatch_, ops_started, tree_ret, inserted, root_page_id_, tree_pages_>>

\* the same Drop releases the header's read latch; the descent has not
\* started yet
BeginKeyDropUnlatch(t) ==
  /\ pc[t] = "bk_unlatch"
  /\ rwlatch_' = [rwlatch_ EXCEPT !.r = @ \ {t}]
  /\ guard_' = [guard_ EXCEPT ![t] = NoGuard]
  /\ pc' = [pc EXCEPT ![t] = "bk_descend"]
  /\ TreeNoBpm
  /\ UNCHANGED <<cur, pins_, ops_started, tree_ret, inserted, root_page_id_, tree_pages_>>

\* TranverseTreeWithRLatch, line 208: FetchPageRead(ctx.root_page_id_) with
\* INVALID_PAGE_ID, the value root_page_id_ has in every state that Insert
\* can produce.  Without a free or evictable frame FetchPage returns nullptr
\* and RLatch is called through it; with one, the frame holds no tree page
\* and the size test of line 219 fails.  Either way the process ends and no
\* thread takes another step.
BeginKeyFetchRoot(t) ==
  /\ pc[t] = "bk_descend"
  /\ cur[t].empty
  /\ pc' = [u \in Threads |-> "terminated"]
  /\ TreeNoBpm
  /\ UNCHANGED <<cur, rwlatch_, guard_, pins_, ops_started, tree_ret, inserted, root_page_id_, tree_pages_>>

(***************************************************************************)
(* Initial states and specifications                                       *)
(***************************************************************************)
\* LRUKReplacer::LRUKReplacer(num_frames, k)
LruInit ==
  /\ node_store_ = [f \in FrameIds |-> NoNode]
  /\ current_timestamp_ = 0
  /\ curr_size_ = 0
  /\ k_ \in 1 .. MaxK
  /\ replacer_size_ = NumFrames
  /\ lru_ret = [op |-> "none", ok |-> FALSE, frame |-> -1, threw |-> FALSE]

\* BufferPoolManager::BufferPoolManager(pool_size, disk_manager, replacer_k)
\* for clients that use the page ids in ids
BpmStart(pool_size, ids) ==
  /\ pages_ = [f \in 0 .. (pool_size - 1) |-> EmptyPage]
  /\ page_table_ = [p \in ids |-> NoFrame]
  /\ free_list_ = [i \in 1 .. pool_size |-> i - 1]
  /\ next_page_id_ = 0
  /\ disk = [p \in ids |-> 0]
  /\ bpm_ret = BpmRet("none", FALSE, FALSE, INVALID_PAGE_ID, INVALID_PAGE_ID, FALSE)
  /\ durable = [p \in ids |-> 0]
  /\ covered = [p \in ids |-> TRUE]

BpmInit == BpmStart(pool_size_, PageIds)

\* the pool of scenario S1: pool_size = 3, k = 2, pages p0 .. p3
S1PoolSize == 3
S1K == 2
S1Pages == 4
S1MaxTs == 5

S1Init ==
  /\ node_store_ = [f \in FrameIds |-> NoNode]
  /\ current_timestamp_ = 0
  /\ curr_size_ = 0
  /\ k_ = S1K
  /\ replacer_size_ = S1PoolSize
  /\ lru_ret = [op |-> "none", ok |-> FALSE, frame |-> -1, threw |-> FALSE]
  /\ BpmStart(S1PoolSize, 0 .. (S1Pages - 1))

\* a LockManager with no table queue yet and transactions that have just begun
LockStart ==
  /\ request_queue_ = [o \in TableOids |-> <<>>]
  /\ upgrading_ = [o \in TableOids |-> INVALID_TXN_ID]
  /\ txn_state = [t \in TxnIds |-> "GROWING"]
  /\ table_lock_set = [t \in TxnIds |-> [m \in LockMode |-> {}]]
  /\ waiting = [t \in TxnIds |-> NoWait]
  /\ lm_ret = LmRet("none", -1, "none", -1, FALSE, "none")

\* the transactions of the lock manager specification, at any isolation level
LockInit == LockStart /\ isolation_level \in [TxnIds -> IsolationLevel]

\* the lock manager where no transaction runs
LockIdle == LockStart /\ isolation_level = [t \in TxnIds |-> "REPEATABLE_READ"]

\* the transactions of the queue-order specification, all REPEATABLE_READ
FifoTxnIds == 0 .. (NumFifoTxns - 1)
FifoStart ==
  /\ request_queue_ = [o \in TableOids |-> <<>>]
  /\ upgrading_ = [o \in TableOids |-> INVALID_TXN_ID]
  /\ txn_state = [t \in FifoTxnIds |-> "GROWING"]
  /\ table_lock_set = [t \in FifoTxnIds |-> [m \in LockMode |-> {}]]
  /\ waiting = [t \in FifoTxnIds |-> NoWait]
  /\ lm_ret = LmRet("none", -1, "none", -1, FALSE, "none")
  /\ isolation_level = [t \in FifoTxnIds |-> "REPEATABLE_READ"]

\* the lock manager of the deadlock specification: two tables, every
\* transaction REPEATABLE_READ, StartDeadlockDetection called
DlTableOids == 0 .. (NumDlTables - 1)
DlStart ==
  /\ request_queue_ = [o \in DlTableOids |-> <<>>]
  /\ upgrading_ = [o \in DlTableOids |-> INVALID_TXN_ID]
  /\ txn_state = [t \in TxnIds |-> "GROWING"]
  /\ table_lock_set = [t \in TxnIds |-> [m \in LockMode |-> {}]]
  /\ waiting = [t \in TxnIds |-> NoWait]
  /\ lm_ret = LmRet("none", -1, "none", -1, FALSE, "none")
  /\ isolation_level = [t \in TxnIds |-> "REPEATABLE_READ"]

\* no thread is inside a tree operation
TreeStart ==
  /\ pc = [t \in Threads |-> "idle"]
  /\ cur = [t \in Threads |-> NoOp]
  /\ rwlatch_ = [w |-> NoThread, r |-> {}]
  /\ guard_ = [t \in Threads |-> NoGuard]
  /\ pins_ = [t \in Threads |-> 0]
  /\ tree_ret = [t \in Threads |-> NoRet]
  /\ inserted = [k \in Keys |-> NoValue]
  /\ root_page_id_ = INVALID_PAGE_ID
  /\ tree_pages_ = [p \in PageIds |-> EmptyLeaf]
  /\ ops_started = 0

\* the buffer pool after NewPage created the header page (timestamp 1) and the
\* BPlusTree constructor fetched, wrote and dropped it (timestamp 2); the
\* creator of the header page may or may not still hold its pin
TreeBpmInit ==
  /\ k_ = MaxK
  /\ replacer_size_ = NumFrames
  /\ current_timestamp_ = 2
  /\ lru_ret = [op |-> "none", ok |-> FALSE, frame |-> -1, threw |-> FALSE]
  /\ pages_ \in {[f \in PoolFrames |->
                    IF f = 0
                    THEN [page_id_ |-> header_page_id_, pin_count_ |-> p, is_dirty_ |-> TRUE, data_ |-> 0]
                    ELSE EmptyPage] : p \in {0, 1}}
  /\ node_store_ = [f \in FrameIds |->
                      IF f = 0
                      THEN [UpdateHistory(UpdateHistory([NoNode EXCEPT !.present = TRUE], 1, k_), 2, k_)
                              EXCEPT !.is_evictable_ = (pages_[0].pin_count_ = 0)]
                      ELSE NoNode]
  /\ curr_size_ = IF pages_[0].pin_count_ = 0 THEN 1 ELSE 0
  /\ page_table_ = [p \in PageIds |-> IF p = header_page_id_ THEN 0 ELSE NoFrame]
  /\ free_list_ = [i \in 1 .. (pool_size_ - 1) |-> i]
  /\ next_page_id_ = 1
  /\ disk = [p \in PageIds |-> 0]
  /\ bpm_ret = BpmRet("none", FALSE, FALSE, INVALID_PAGE_ID, INVALID_PAGE_ID, FALSE)
  /\ durable = [p \in PageIds |-> 0]
  /\ covered = [p \in PageIds |-> TRUE]

\* no thread is inside FlushPage or FlushAllPages
FlushIdle == flusher = NoFlush

\* no page guard has been constructed
GuardStart == page_guard_ = [g \in GuardIds |-> NoPageGuard]

\* no LockTable or UnlockTable call is running and every mutex is free
MutexIdle ==
  /\ table_lock_map_latch_ = Unlocked
  /\ latch_ = [o \in TableOids |-> Unlocked]
  /\ lm_pc = [t \in TxnIds |-> "idle"]
  /\ lm_call = [t \in TxnIds |-> NoCall]

\* REPEATABLE_READ transactions, one thread each
MutexStart == LockStart /\ isolation_level = [t \in TxnIds |-> "REPEATABLE_READ"]

Init == LruInit /\ BpmInit /\ LockIdle /\ TreeStart /\ FlushIdle /\ GuardStart /\ MutexIdle
InitLock == LruInit /\ k_ = MaxK /\ BpmInit /\ LockInit /\ TreeStart /\ FlushIdle /\ GuardStart /\ MutexIdle
InitTree == TreeBpmInit /\ LockIdle /\ TreeStart /\ FlushIdle /\ GuardStart /\ MutexIdle
InitS1 == S1Init /\ LockIdle /\ TreeStart /\ FlushIdle /\ GuardStart /\ MutexIdle
InitDeadlock == LruInit /\ k_ = MaxK /\ BpmInit /\ DlStart /\ TreeStart /\ FlushIdle /\ GuardStart /\ MutexIdle
InitFifo == LruInit /\ k_ = MaxK /\ BpmInit /\ FifoStart /\ TreeStart /\ FlushIdle /\ GuardStart /\ MutexIdle
InitMutex == LruInit /\ k_ = MaxK /\ BpmInit /\ MutexStart /\ TreeStart /\ FlushIdle /\ GuardStart /\ MutexIdle
InitRace == LruInit /\ k_ = MaxK /\ BpmInit /\ LockIdle /\ TreeStart /\ FlushIdle /\ GuardStart /\ MutexIdle

\* ---- the replacer under its public operations ----
LruRecordAccess == (\E f \in FrameIds : RecordAccess(f)) /\ UNCHANGED <<bpmVars, lockVars, treeVars, raceVars, guardVars, mutexVars>>
LruSetEvictable ==
  (\E f \in FrameIds, b \in BOOLEAN : SetEvictable(f, b)) /\ UNCHANGED <<bpmVars, lockVars, treeVars, raceVars, guardVars, mutexVars>>
LruEvict == Evict /\ UNCHANGED <<bpmVars, lockVars, treeVars, raceVars, guardVars, mutexVars>>
LruRemove == (\E f \in FrameIds : Remove(f)) /\ UNCHANGED <<bpmVars, lockVars, treeVars, raceVars, guardVars, mutexVars>>

LruNext == LruRecordAccess \/ LruSetEvictable \/ LruEvict \/ LruRemove

SpecLRU == Init /\ [][LruNext]_vars

\* ---- the buffer pool under its public operations ----
\* clients pass page ids that AllocatePage has handed out
AllocatedPages == 0 .. (next_page_id_ - 1)

\* the bounds of the exploration: page ids, timestamps and pin counts
CanAllocate == next_page_id_ < MaxPages
CanTick == current_timestamp_ < MaxTs
CanPin(p) == page_table_[p] # NoFrame => pages_[page_table_[p]].pin_count_ < MaxPin
CanFree == Len(free_list_) < pool_size_

BpmNewPage == CanAllocate /\ CanTick /\ NewPage /\ UNCHANGED <<lockVars, treeVars, raceVars, guardVars, mutexVars>>
BpmFetchPage ==
  /\ CanTick
  /\ \E p \in AllocatedPages : CanPin(p) /\ FetchPage(p)
  /\ UNCHANGED <<lockVars, treeVars, raceVars, guardVars, mutexVars>>
BpmUnpinPage ==
  (\E p \in AllocatedPages, d \in BOOLEAN : UnpinPage(p, d)) /\ UNCHANGED <<lockVars, treeVars, raceVars, guardVars, mutexVars>>
BpmFlushPage == (\E p \in AllocatedPages : ClientFlushPage(p)) /\ UNCHANGED <<lockVars, treeVars, raceVars, guardVars, mutexVars>>
BpmDeletePage == (\E p \in AllocatedPages : DeletePage(p)) /\ UNCHANGED <<lockVars, treeVars, raceVars, guardVars, mutexVars>>
BpmWriteData ==
  (\E p \in AllocatedPages, d \in Data : WriteData(p, d)) /\ UNCHANGED <<lockVars, treeVars, raceVars, guardVars, mutexVars>>

BpmNext ==
  \/ BpmNewPage \/ BpmFetchPage \/ BpmUnpinPage
  \/ BpmFlushPage \/ BpmDeletePage

SpecBPM == Init /\ [][BpmNext]_vars

\* the buffer pool with a client that writes page buffers
DataNext ==
  \/ BpmNewPage \/ BpmFetchPage \/ BpmUnpinPage
  \/ BpmFlushPage \/ BpmWriteData

SpecData == Init /\ [][DataNext]_vars

\* ---- scenario S1: new_page, unpin_page(.., false) and fetch_page ----
S1NewPage ==
  /\ next_page_id_ < S1Pages /\ current_timestamp_ < S1MaxTs
  /\ NewPage
  /\ UNCHANGED <<lockVars, treeVars, raceVars, guardVars, mutexVars>>
S1UnpinPage ==
  /\ \E p \in AllocatedPages : UnpinPage(p, FALSE)
  /\ UNCHANGED <<lockVars, treeVars, raceVars, guardVars, mutexVars>>
S1FetchPage ==
  /\ current_timestamp_ < S1MaxTs
  /\ \E p \in AllocatedPages : CanPin(p) /\ FetchPage(p)
  /\ UNCHANGED <<lockVars, treeVars, raceVars, guardVars, mutexVars>>

S1Next == S1NewPage \/ S1UnpinPage \/ S1FetchPage

SpecS1 == InitS1 /\ [][S1Next]_vars

\* ---- clients that reach pages only through page guards ----
GuardOther == UNCHANGED <<lockVars, treeVars, raceVars, mutexVars>>

PgNewPageGuarded == CanAllocate /\ CanTick /\ (\E g \in GuardIds : NewPageGuarded(g)) /\ GuardOther
PgFetchPageBasic ==
  /\ CanTick
  /\ \E g \in GuardIds, p \in AllocatedPages : CanPin(p) /\ FetchPageBasic(g, p)
  /\ GuardOther
PgDrop == (\E g \in GuardIds : GuardDrop(g)) /\ GuardOther
PgDestroy == (\E g \in GuardIds : GuardDestroy(g)) /\ GuardOther
PgMoveConstruct == (\E g, that \in GuardIds : GuardMoveConstruct(g, that)) /\ GuardOther
PgMoveAssign == (\E g, that \in GuardIds : GuardMoveAssign(g, that)) /\ GuardOther

GuardNext ==
  \/ PgNewPageGuarded \/ PgFetchPageBasic \/ PgDrop \/ PgDestroy
  \/ PgMoveConstruct \/ PgMoveAssign

SpecGuard == Init /\ [][GuardNext]_vars

\* ---- the buffer pool with one thread flushing while others operate ----
RaceNewPage ==
  /\ CanAllocate /\ CanTick /\ NewPage /\ UnderFlush
  /\ UNCHANGED <<lockVars, treeVars, guardVars, mutexVars>>
RaceFetchPage ==
  /\ CanTick
  /\ \E p \in AllocatedPages : CanPin(p) /\ FetchPage(p)
  /\ UnderFlush
  /\ UNCHANGED <<lockVars, treeVars, guardVars, mutexVars>>
RaceUnpinPage ==
  /\ \E p \in AllocatedPages : UnpinPage(p, FALSE)
  /\ UnderFlush
  /\ UNCHANGED <<lockVars, treeVars, guardVars, mutexVars>>
RaceDeletePage ==
  /\ CanFree
  /\ \E p \in AllocatedPages : DeletePage(p)
  /\ UnderFlush
  /\ UNCHANGED <<lockVars, treeVars, guardVars, mutexVars>>
RaceFlushPageCheck == (\E p \in AllocatedPages : FlushPageCheck(p)) /\ UNCHANGED <<lockVars, treeVars, guardVars, mutexVars>>
RaceFlushPageWrite == FlushPageWrite /\ UNCHANGED <<lockVars, treeVars, guardVars, mutexVars>>
RaceFlushPageClear == FlushPageClear /\ UNCHANGED <<lockVars, treeVars, guardVars, mutexVars>>
RaceFlushAllPagesBegin == FlushAllPagesBegin /\ UNCHANGED <<lockVars, treeVars, guardVars, mutexVars>>
RaceFlushAllPagesNext == FlushAllPagesNext /\ UNCHANGED <<lockVars, treeVars, guardVars, mutexVars>>

RaceNext ==
  \/ RaceNewPage \/ RaceFetchPage \/ RaceUnpinPage \/ RaceDeletePage
  \/ RaceFlushPageCheck \/ RaceFlushPageWrite \/ RaceFlushPageClear
  \/ RaceFlushAllPagesBegin \/ RaceFlushAllPagesNext

SpecRace == InitRace /\ [][RaceNext]_vars

\* ---- the lock manager: transactions lock and unlock tables ----
LockOther == UNCHANGED <<isolation_level, lruVars, bpmVars, treeVars, raceVars, guardVars, mutexVars>>

LmLockTable ==
  (\E t \in TxnIds, m \in LockMode, o \in TableOids : LockTable(t, m, o)) /\ LockOther
LmLockTableWake == (\E t \in TxnIds : LockTableWake(t)) /\ LockOther
LmUnlockTable == (\E t \in TxnIds, o \in TableOids : UnlockTable(t, o)) /\ LockOther
LmAbortWaiting == (\E t \in TxnIds : AbortWaiting(t)) /\ LockOther

LockNext == LmLockTable \/ LmLockTableWake \/ LmUnlockTable \/ LmAbortWaiting

SpecLock == InitLock /\ [][LockNext]_vars

\* ---- the lock manager with enough transactions for a queue of three ----
FifoLockTable ==
  (\E t \in FifoTxnIds, m \in LockMode, o \in TableOids : LockTable(t, m, o)) /\ LockOther
FifoLockTableWake == (\E t \in FifoTxnIds : LockTableWake(t)) /\ LockOther
FifoUnlockTable == (\E t \in FifoTxnIds, o \in TableOids : UnlockTable(t, o)) /\ LockOther
FifoAbortWaiting == (\E t \in FifoTxnIds : AbortWaiting(t)) /\ LockOther

FifoNext == FifoLockTable \/ FifoLockTableWake \/ FifoUnlockTable \/ FifoAbortWaiting

SpecFifo == InitFifo /\ [][FifoNext]_vars

\* ---- the wait loop of LockTable under a fair scheduler ----
\* three transactions ask for shared and exclusive locks; a thread that has
\* a notification pending is runnable and is scheduled in the end, while no
\* client call, abort or spurious wake-up is ever forced to happen
WakeModes == {"SHARED", "EXCLUSIVE"}
WakeLockTable ==
  (\E t \in FifoTxnIds, m \in WakeModes, o \in TableOids : LockTable(t, m, o)) /\ LockOther
WakeNotified(t) == waiting[t].notified /\ LockTableWake(t) /\ LockOther
WakeNotifiedThread == \E t \in FifoTxnIds : WakeNotified(t)
WakeSpurious == (\E t \in FifoTxnIds : ~waiting[t].notified /\ LockTableWake(t)) /\ LockOther
WakeUnlockTable == (\E t \in FifoTxnIds, o \in TableOids : UnlockTable(t, o)) /\ LockOther
WakeAbortWaiting == (\E t \in FifoTxnIds : AbortWaiting(t)) /\ LockOther

WakeNext ==
  WakeLockTable \/ WakeNotifiedThread \/ WakeSpurious \/ WakeUnlockTable \/ WakeAbortWaiting

SpecWake ==
  /\ InitFifo
  /\ [][WakeNext]_vars
  /\ \A t \in FifoTxnIds : WF_vars(WakeNotified(t))

\* ---- LockTable and UnlockTable with their mutexes ----
MxOther == UNCHANGED <<isolation_level, lruVars, bpmVars, treeVars, raceVars, guardVars>>
MxLockTableCall ==
  (\E t \in TxnIds, m \in LockMode, o \in TableOids : LockTableCall(t, m, o)) /\ MxOther
MxLockTableLockMap == (\E t \in TxnIds : LockTableLockMap(t)) /\ MxOther
MxLockTableLockQueue == (\E t \in TxnIds : LockTableLockQueue(t)) /\ MxOther
MxLockTableWakeLocked == (\E t \in TxnIds : LockTableWakeLocked(t)) /\ MxOther
MxUnlockTableCall == (\E t \in TxnIds, o \in TableOids : UnlockTableCall(t, o)) /\ MxOther
MxUnlockTableLockQueue == (\E t \in TxnIds : UnlockTableLockQueue(t)) /\ MxOther
MxUnlockTableLockMap == (\E t \in TxnIds : UnlockTableLockMap(t)) /\ MxOther
MxAbortWaiting == (\E t \in TxnIds : AbortWaiting(t)) /\ UNCHANGED mutexVars /\ MxOther

MxNext ==
  \/ MxLockTableCall \/ MxLockTableLockMap \/ MxLockTableLockQueue \/ MxLockTableWakeLocked
  \/ MxUnlockTableCall \/ MxUnlockTableLockQueue \/ MxUnlockTableLockMap \/ MxAbortWaiting

SpecMutex == InitMutex /\ [][MxNext]_vars

\* ---- the lock manager with its row operations ----
RowLockTable ==
  (\E t \in TxnIds, m \in LockMode, o \in TableOids : LockTable(t, m, o)) /\ LockOther
RowLockTableWake == (\E t \in TxnIds : LockTableWake(t)) /\ LockOther
RowUnlockTable == (\E t \in TxnIds, o \in TableOids : UnlockTable(t, o)) /\ LockOther
RowAbortWaiting == (\E t \in TxnIds : AbortWaiting(t)) /\ LockOther
RowLockRow ==
  (\E t \in TxnIds, m \in LockMode, o \in TableOids, r \in RowIds : LockRow(t, m, o, r)) /\ LockOther
RowUnlockRow ==
  (\E t \in TxnIds, o \in TableOids, r \in RowIds, f \in BOOLEAN : UnlockRow(t, o, r, f)) /\ LockOther

RowNext ==
  RowLockTable \/ RowLockTableWake \/ RowUnlockTable \/ RowAbortWaiting \/ RowLockRow \/ RowUnlockRow

SpecRow == InitLock /\ [][RowNext]_vars

\* ---- the lock manager on two tables with the deadlock detection thread ----
\* the transactions ask for shared and exclusive locks
DlModes == {"SHARED", "EXCLUSIVE"}
DlLockTable ==
  (\E t \in TxnIds, m \in DlModes, o \in DlTableOids : LockTable(t, m, o)) /\ LockOther
DlLockTableWake == (\E t \in TxnIds : LockTableWake(t)) /\ LockOther
DlUnlockTable == (\E t \in TxnIds, o \in DlTableOids : UnlockTable(t, o)) /\ LockOther
DlAbortWaiting == (\E t \in TxnIds : AbortWaiting(t)) /\ LockOther
DlHasCycle == HasCycle /\ LockOther
DlRunCycleDetection == RunCycleDetection /\ LockOther

DlNext ==
  DlLockTable \/ DlLockTableWake \/ DlUnlockTable \/ DlAbortWaiting \/ DlHasCycle
    \/ DlRunCycleDetection

\* the waiting threads and the detection thread keep running; the calls of
\* the clients and an abort from outside are not forced
SpecDeadlock ==
  /\ InitDeadlock /\ [][DlNext]_vars
  /\ WF_vars(DlLockTableWake) /\ WF_vars(DlHasCycle) /\ WF_vars(DlRunCycleDetection)

\* ---- the B+ tree: threads call Insert, GetValue and Remove ----
TreeInsert == (\E t \in Threads, k \in Keys, v \in Values : StartInsert(t, k, v)) /\ UNCHANGED <<lockVars, raceVars, guardVars, mutexVars>>
TreeInsertWLatch == (\E t \in Threads : InsertWLatch(t)) /\ UNCHANGED <<lockVars, raceVars, guardVars, mutexVars>>
TreeInsertRefetch == (\E t \in Threads : InsertRefetch(t)) /\ UNCHANGED <<lockVars, raceVars, guardVars, mutexVars>>
TreeInsertRelockThrow == (\E t \in Threads : InsertRelockThrow(t)) /\ UNCHANGED <<lockVars, raceVars, guardVars, mutexVars>>
TreeInsertRelockHang == (\E t \in Threads : InsertRelockHang(t)) /\ UNCHANGED <<lockVars, raceVars, guardVars, mutexVars>>
TreeWriteDropUnpin == (\E t \in Threads : WriteDropUnpin(t)) /\ UNCHANGED <<lockVars, raceVars, guardVars, mutexVars>>
TreeWriteDropUnlatch == (\E t \in Threads : WriteDropUnlatch(t)) /\ UNCHANGED <<lockVars, raceVars, guardVars, mutexVars>>
TreeGetValue == (\E t \in Threads, k \in Keys : StartGetValue(t, k)) /\ UNCHANGED <<lockVars, raceVars, guardVars, mutexVars>>
TreeRemove == (\E t \in Threads, k \in Keys : StartRemove(t, k)) /\ UNCHANGED <<lockVars, raceVars, guardVars, mutexVars>>
TreeBegin == (\E t \in Threads : StartBegin(t)) /\ UNCHANGED <<lockVars, raceVars, guardVars, mutexVars>>
TreeBeginKey == (\E t \in Threads, k \in Keys : StartBeginKey(t, k)) /\ UNCHANGED <<lockVars, raceVars, guardVars, mutexVars>>
TreeBeginKeyRLatch == (\E t \in Threads : BeginKeyRLatch(t)) /\ UNCHANGED <<lockVars, raceVars, guardVars, mutexVars>>
TreeBeginKeyDropUnpin == (\E t \in Threads : BeginKeyDropUnpin(t)) /\ UNCHANGED <<lockVars, raceVars, guardVars, mutexVars>>
TreeBeginKeyDropUnlatch == (\E t \in Threads : BeginKeyDropUnlatch(t)) /\ UNCHANGED <<lockVars, raceVars, guardVars, mutexVars>>
TreeBeginKeyFetchRoot == (\E t \in Threads : BeginKeyFetchRoot(t)) /\ UNCHANGED <<lockVars, raceVars, guardVars, mutexVars>>
TreeIsEmptyRLatch == (\E t \in Threads : IsEmptyRLatch(t)) /\ UNCHANGED <<lockVars, raceVars, guardVars, mutexVars>>
TreeReadDropUnpin == (\E t \in Threads : ReadDropUnpin(t)) /\ UNCHANGED <<lockVars, raceVars, guardVars, mutexVars>>
TreeReadDropUnlatch == (\E t \in Threads : ReadDropUnlatch(t)) /\ UNCHANGED <<lockVars, raceVars, guardVars, mutexVars>>

TreeNext ==
  \/ TreeInsert \/ TreeInsertWLatch \/ TreeInsertRefetch
  \/ TreeInsertRelockThrow \/ TreeInsertRelockHang
  \/ TreeWriteDropUnpin \/ TreeWriteDropUnlatch
  \/ TreeGetValue \/ TreeRemove \/ TreeBegin \/ TreeIsEmptyRLatch
  \/ TreeReadDropUnpin \/ TreeReadDropUnlatch
  \/ TreeBeginKey \/ TreeBeginKeyRLatch \/ TreeBeginKeyDropUnpin
  \/ TreeBeginKeyDropUnlatch \/ TreeBeginKeyFetchRoot

SpecTree == InitTree /\ [][TreeNext]_vars

\* the steps thread t takes inside an operation it has started
TreeThreadStep(t) ==
  /\ \/ InsertWLatch(t) \/ InsertRefetch(t)
     \/ InsertRelockThrow(t) \/ InsertRelockHang(t)
     \/ WriteDropUnpin(t) \/ WriteDropUnlatch(t)
     \/ IsEmptyRLatch(t) \/ ReadDropUnpin(t) \/ ReadDropUnlatch(t)
     \/ BeginKeyRLatch(t) \/ BeginKeyDropUnpin(t) \/ BeginKeyDropUnlatch(t)
     \/ BeginKeyFetchRoot(t)
  /\ UNCHANGED <<lockVars, raceVars, guardVars, mutexVars>>

\* every thread that can take a step inside its operation is scheduled
SpecTreeFair == SpecTree /\ \A t \in Threads : WF_vars(TreeThreadStep(t))

(***************************************************************************)
(* C4: after any sequence of record_access, set_evictable, evict and       *)
(* remove calls, size() equals the number of tracked frames whose          *)
(* evictable flag is true; it never underflows and an evict that finds no  *)
(* evictable frame returns false and leaves the size unchanged.            *)
(***************************************************************************)
C4_SizeCountsEvictable ==
  /\ Size = Cardinality(EvictableFrames(node_store_))
  /\ Size >= 0
  /\ (lru_ret.op = "Evict" /\ ~lru_ret.ok /\ ~lru_ret.threw) => Size = 0

\* an evict has removed one of several evictable frames
C4_Witness ==
  /\ lru_ret.op = "Evict" /\ lru_ret.ok
  /\ Size = 1
  /\ Cardinality(TrackedFrames(node_store_)) = 2

(***************************************************************************)
(* C5: whenever at least one frame is evictable, evict() succeeds and      *)
(* returns the evictable frame with the largest backward k-distance (+inf  *)
(* with fewer than k accesses); ties go to the smallest earliest recorded  *)
(* access timestamp.  For every k >= 1.                                    *)
(***************************************************************************)
\* the victim the replacement policy prescribes
BestVictim(store, now, k) ==
  CHOOSE f \in EvictableFrames(store) :
    \A g \in EvictableFrames(store) \ {f} :
      LET df == GetBackwardDistance(store[f], now, k)
          dg == GetBackwardDistance(store[g], now, k)
      IN  \/ df > dg
          \/ df = dg /\ GetEariestAccessTime(store[f]) < GetEariestAccessTime(store[g])

C5_EvictReturnsMaxDistance ==
  [][(LruEvict /\ EvictableFrames(node_store_) # {}) =>
       /\ lru_ret'.ok
       /\ lru_ret'.frame = BestVictim(node_store_, current_timestamp_, k_)]_vars

(***************************************************************************)
(* C1: after any interleaving of new_page, fetch_page, unpin_page and      *)
(* delete_page on a pool of pool_size frames the page table holds at most  *)
(* pool_size entries, no page id is held by two frames, no two page ids    *)
(* map to the same frame, and no resident page has a negative pin count.   *)
(***************************************************************************)
ResidentPages == {p \in PageIds : page_table_[p] # NoFrame}

C1_PageTableWithinPool ==
  /\ Cardinality(ResidentPages) <= pool_size_
  /\ \A p \in ResidentPages : pages_[page_table_[p]].page_id_ = p
  /\ \A p, q \in ResidentPages : p # q => page_table_[p] # page_table_[q]
  /\ \A f, g \in PoolFrames :
       (f # g /\ pages_[f].page_id_ # INVALID_PAGE_ID) => pages_[f].page_id_ # pages_[g].page_id_
  /\ \A p \in ResidentPages : pages_[page_table_[p]].pin_count_ >= 0

\* a full pool in which a page has just replaced an evicted one
C1_Witness ==
  /\ bpm_ret.op \in {"NewPage", "FetchPage"} /\ bpm_ret.ok
  /\ bpm_ret.victim # INVALID_PAGE_ID
  /\ Cardinality(ResidentPages) = pool_size_

(***************************************************************************)
(* C8: a resident frame is marked evictable in the replacer if and only if *)
(* its page's pin count is 0; a frame with pin count > 0 is never taken as *)
(* a victim, so its page is never replaced by new_page or fetch_page.      *)
(***************************************************************************)
EvictableIffUnpinned ==
  \A p \in ResidentPages :
    LET f == page_table_[p]
    IN  /\ node_store_[f].present
        /\ node_store_[f].is_evictable_ <=> (pages_[f].pin_count_ = 0)

PinnedPageStays ==
  (BpmNewPage \/ BpmFetchPage) =>
    \A f \in PoolFrames :
      pages_[f].pin_count_ > 0 =>
        /\ pages_'[f].page_id_ = pages_[f].page_id_
        /\ page_table_'[pages_[f].page_id_] = f

C8_EvictableIffUnpinned == []EvictableIffUnpinned /\ [][PinnedPageStays]_vars

\* a victim was taken while another frame stayed pinned
C8_Witness ==
  /\ bpm_ret.op \in {"NewPage", "FetchPage"} /\ bpm_ret.ok
  /\ bpm_ret.victim # INVALID_PAGE_ID
  /\ \E f \in PoolFrames :
       /\ pages_[f].pin_count_ > 0
       /\ node_store_[f].history_ # <<current_timestamp_>>

(***************************************************************************)
(* C9: a page written in memory and unpinned with dirty=true keeps its     *)
(* contents across eviction: the victim is written to disk before its      *)
(* frame is reused, so a later fetch_page returns the bytes last written.  *)
(***************************************************************************)
C9_DirtyPageSurvivesEviction ==
  \A p \in PageIds :
    covered[p] =>
      IF page_table_[p] # NoFrame
      THEN pages_[page_table_[p]].data_ = durable[p]
      ELSE disk[p] = durable[p]

\* page 0 was written, unpinned dirty, evicted and has just been read back
C9_Witness ==
  /\ bpm_ret.op = "FetchPage" /\ bpm_ret.ok
  /\ page_table_[0] # NoFrame
  /\ node_store_[page_table_[0]].history_ = <<current_timestamp_>>
  /\ ~pages_[page_table_[0]].is_dirty_
  /\ covered[0] /\ durable[0] # 0
  /\ pages_[page_table_[0]].data_ = durable[0]

(***************************************************************************)
(* C2: in every reachable state of a table lock queue, any two granted     *)
(* requests held by different transactions on the same table have modes    *)
(* that are compatible under the IS/IX/S/SIX/X matrix (IS with IS, IX, S,  *)
(* SIX; IX with IS, IX; S with IS, S; SIX with IS only; X with nothing),   *)
(* across plain acquisitions, upgrades, unlocks and aborted waits.         *)
(***************************************************************************)
CompatiblePairs ==
  {<<"INTENTION_SHARED", "INTENTION_SHARED">>, <<"INTENTION_SHARED", "INTENTION_EXCLUSIVE">>,
   <<"INTENTION_SHARED", "SHARED">>, <<"INTENTION_SHARED", "SHARED_INTENTION_EXCLUSIVE">>,
   <<"INTENTION_EXCLUSIVE", "INTENTION_SHARED">>, <<"INTENTION_EXCLUSIVE", "INTENTION_EXCLUSIVE">>,
   <<"SHARED", "INTENTION_SHARED">>, <<"SHARED", "SHARED">>,
   <<"SHARED_INTENTION_EXCLUSIVE", "INTENTION_SHARED">>}

C2_GrantedLocksCompatible ==
  \A o \in TableOids :
    \A i, j \in 1 .. Len(request_queue_[o]) :
      (/\ i # j
       /\ request_queue_[o][i].granted_
       /\ request_queue_[o][j].granted_
       /\ request_queue_[o][i].txn_id_ # request_queue_[o][j].txn_id_)
      => <<request_queue_[o][i].lock_mode_, request_queue_[o][j].lock_mode_>> \in CompatiblePairs

\* two transactions hold granted locks on one table and the last call was a
\* LockTable that granted one of them
C2_Witness ==
  \E o \in TableOids :
    \E i, j \in 1 .. Len(request_queue_[o]) :
      /\ request_queue_[o][i].granted_
      /\ request_queue_[o][j].granted_
      /\ request_queue_[o][i].txn_id_ # request_queue_[o][j].txn_id_
      /\ lm_ret.op = "LockTable" /\ lm_ret.ok /\ lm_ret.oid = o
      /\ lm_ret.txn = request_queue_[o][i].txn_id_

(***************************************************************************)
(* C7: when a Read or Write page guard is dropped, the page latch is       *)
(* released first and the page is unpinned afterwards; the unpin step      *)
(* never precedes the unlatch step.  As a state predicate: no guard still  *)
(* holds its latch after it has given up its pin.                          *)
(***************************************************************************)
C7_LatchReleasedBeforeUnpin ==
  \A t \in Threads : guard_[t].latched => guard_[t].pinned

RECURSIVE SortedKeys(_)
SortedKeys(S) ==
  IF S = {} THEN <<>>
  ELSE LET m == CHOOSE x \in S : \A y \in S : x <= y
       IN  <<m>> \o SortedKeys(S \ {m})

C11_EveryOperationReturns ==
  \A t \in Threads :
    (pc[t] # "idle") ~> (pc[t] = "idle" /\ rwlatch_.w # t /\ t \notin rwlatch_.r)


(***************************************************************************)
(* C12: new_page, and fetch_page of a page that is not resident, return    *)
(* null exactly when the free list is empty and no frame is evictable; a   *)
(* call that returns no page changes nothing, a failed new_page consumes   *)
(* no page id, and a successful new_page hands out the next id in order.   *)
(***************************************************************************)
\* the free list is empty and the replacer has no evictable frame
NoFrameAvailable == free_list_ = <<>> /\ EvictableFrames(node_store_) = {}

\* the call that made this step handed a page to its caller / returned null
ReturnedPage == bpm_ret'.ok
ReturnedNull == ~bpm_ret'.ok /\ ~bpm_ret'.threw

NewPageContract ==
  BpmNewPage =>
    /\ NoFrameAvailable => ReturnedNull
    /\ ~NoFrameAvailable => ReturnedPage
    /\ ~ReturnedPage => UNCHANGED <<lruVars, pages_, page_table_, free_list_, next_page_id_, disk>>
    /\ ReturnedPage => /\ next_page_id_' = next_page_id_ + 1
                       /\ page_table_'[next_page_id_] # NoFrame

FetchMissContract ==
  \A p \in AllocatedPages :
    (page_table_[p] = NoFrame /\ FetchPage(p)) =>
      /\ NoFrameAvailable => ReturnedNull
      /\ ~NoFrameAvailable => ReturnedPage
      /\ ~ReturnedPage => UNCHANGED <<lruVars, pages_, page_table_, free_list_, next_page_id_, disk>>

C12_NullIffNoFrameAvailable == [][NewPageContract /\ FetchMissContract]_vars

(***************************************************************************)
(* C13: unpin_page(id, d) returns false and changes nothing when the page  *)
(* is not resident or its pin count is 0; otherwise it returns true,       *)
(* lowers the pin count by exactly 1 and leaves is_dirty equal to          *)
(* (old is_dirty OR d), so d = false never clears the flag.                *)
(***************************************************************************)
UnpinContract(p, d) ==
  LET f == page_table_[p]
  IN  IF f = NoFrame \/ pages_[f].pin_count_ = 0
      THEN /\ ~bpm_ret'.ok
           /\ UNCHANGED <<lruVars, pages_, page_table_, free_list_, next_page_id_, disk>>
      ELSE /\ bpm_ret'.ok
           /\ pages_'[f].pin_count_ = pages_[f].pin_count_ - 1
           /\ pages_'[f].is_dirty_ = (pages_[f].is_dirty_ \/ d)
           /\ pages_'[f].page_id_ = p
           /\ \A g \in PoolFrames \ {f} : pages_'[g] = pages_[g]
           /\ UNCHANGED <<page_table_, free_list_, next_page_id_, disk>>

C13_UnpinDecrementsAndKeepsDirty ==
  [][\A p \in AllocatedPages, d \in BOOLEAN : UnpinPage(p, d) => UnpinContract(p, d)]_vars

\* an unpin with d = false has just returned true on a page that stays dirty
C13_Witness ==
  /\ bpm_ret.op = "UnpinPage" /\ bpm_ret.ok /\ ~bpm_ret.is_dirty
  /\ page_table_[bpm_ret.page_id] # NoFrame
  /\ pages_[page_table_[bpm_ret.page_id]].is_dirty_

(***************************************************************************)
(* C14: delete_page(id) returns true and changes nothing when the page is  *)
(* not resident, returns false and changes nothing when it is resident     *)
(* and pinned; otherwise it returns true, the page leaves the page table,  *)
(* its frame is on the free list and unknown to the replacer, and a later  *)
(* fetch_page(id) yields a frame with pin count 1 and a clear dirty flag.  *)
(***************************************************************************)
InFreeList(fl, f) == \E i \in 1 .. Len(fl) : fl[i] = f

DeleteContract(p) ==
  LET f == page_table_[p]
  IN  IF f = NoFrame
      THEN /\ bpm_ret'.ok
           /\ UNCHANGED <<lruVars, pages_, page_table_, free_list_, next_page_id_, disk>>
      ELSE IF pages_[f].pin_count_ > 0
      THEN /\ ~bpm_ret'.ok /\ ~bpm_ret'.threw
           /\ UNCHANGED <<lruVars, pages_, page_table_, free_list_, next_page_id_, disk>>
      ELSE /\ bpm_ret'.ok
           /\ page_table_'[p] = NoFrame
           /\ InFreeList(free_list_', f)
           /\ ~node_store_'[f].present
           /\ pages_'[f] = EmptyPage

\* fetch_page(p) right after delete_page(p) removed p from the pool
FetchAfterDelete(p) ==
  (bpm_ret.op = "DeletePage" /\ bpm_ret.ok /\ bpm_ret.victim = p /\ FetchPage(p)) =>
    /\ bpm_ret'.ok
    /\ page_table_'[p] # NoFrame
    /\ pages_'[page_table_'[p]].page_id_ = p
    /\ pages_'[page_table_'[p]].pin_count_ = 1
    /\ ~pages_'[page_table_'[p]].is_dirty_

C14_DeletePageContract ==
  [][\A p \in AllocatedPages :
       /\ DeletePage(p) => DeleteContract(p)
       /\ FetchAfterDelete(p)]_vars

\* delete_page has just removed a resident, unpinned page from the pool
C14_Witness ==
  /\ bpm_ret.op = "DeletePage" /\ bpm_ret.ok /\ bpm_ret.victim = bpm_ret.page_id
  /\ bpm_ret.page_id # INVALID_PAGE_ID
  /\ page_table_[bpm_ret.page_id] = NoFrame
  /\ free_list_ # <<>>

(***************************************************************************)
(* C15: flush_page and flush_all_pages run under the buffer pool mutex     *)
(* like every other public operation: a flush_page(id) that overlaps       *)
(* new_page, fetch_page or delete_page of other threads never writes to    *)
(* disk, under page id id, the bytes of a frame that holds another page at *)
(* that moment, and flush_all_pages never walks the page table while       *)
(* another operation modifies it.                                          *)
(***************************************************************************)
C15_FlushRunsUnderMutex ==
  /\ (flusher.pc = "clear" /\ flusher.src # INVALID_PAGE_ID) => flusher.src = flusher.page_id
  /\ ~flusher.raced

(***************************************************************************)
(* C16: scenario S1 (pool_size = 3, k = 2): after new_page p0, p1, p2,     *)
(* unpin(p0, false), unpin(p1, false) and new_page p3, which evicts p0,    *)
(* fetch_page(0) returns null as long as p3 is pinned and succeeds only    *)
(* after unpin(p3).                                                        *)
(***************************************************************************)
PinCount(p) == pages_[page_table_[p]].pin_count_

\* p0, p1, p2 were created and p0, p1 unpinned
S1BeforeP3 ==
  /\ next_page_id_ = 3 /\ current_timestamp_ = 3
  /\ \A p \in 0 .. 2 : page_table_[p] # NoFrame
  /\ PinCount(0) = 0 /\ PinCount(1) = 0 /\ PinCount(2) = 1

\* then new_page returned p3, which is still pinned
S1AfterP3 ==
  /\ next_page_id_ = 4 /\ current_timestamp_ = 4
  /\ page_table_[0] = NoFrame
  /\ \A p \in 1 .. 3 : page_table_[p] # NoFrame
  /\ PinCount(1) = 0 /\ PinCount(2) = 1 /\ PinCount(3) = 1

\* the claim as stated
C16_FetchP0NullUntilUnpinP3 ==
  [][(S1AfterP3 /\ FetchPage(0)) => ReturnedNull]_vars

\* what holds instead: p3 evicts p0, and fetch_page(0) succeeds at once, with
\* p3 still pinned, by evicting the unpinned p1
C16_FetchP0EvictsP1 ==
  [][/\ (S1BeforeP3 /\ S1NewPage) => (ReturnedPage /\ bpm_ret'.victim = 0 /\ S1AfterP3')
     /\ (S1AfterP3 /\ FetchPage(0)) =>
          /\ ReturnedPage /\ bpm_ret'.victim = 1
          /\ page_table_'[0] # NoFrame /\ page_table_'[1] = NoFrame
          /\ pages_'[page_table_'[0]].pin_count_ = 1
          /\ pages_'[page_table_'[3]].pin_count_ = 1]_vars

\* fetch_page(0) has succeeded while p3 is still pinned
C16_Witness ==
  /\ next_page_id_ = 4 /\ current_timestamp_ = 5
  /\ bpm_ret.op = "FetchPage" /\ bpm_ret.ok /\ bpm_ret.page_id = 0 /\ bpm_ret.victim = 1
  /\ page_table_[3] # NoFrame /\ PinCount(3) = 1
  /\ page_table_[2] # NoFrame /\ PinCount(2) = 1

(***************************************************************************)
(* C17: set_evictable on a frame the replacer does not track fails with    *)
(* an error and changes nothing; evict removes the victim's node, so the   *)
(* frame stays untracked until record_access is called on it, and the node *)
(* that record_access creates is non-evictable and holds only the new      *)
(* access; set_evictable with the flag's current value changes nothing.    *)
(***************************************************************************)
SetEvictableContract(f, b) ==
  IF ~node_store_[f].present
  THEN /\ lru_ret'.threw
       /\ UNCHANGED <<node_store_, curr_size_, current_timestamp_>>
  ELSE /\ ~lru_ret'.threw
       /\ node_store_[f].is_evictable_ = b =>
            UNCHANGED <<node_store_, curr_size_, current_timestamp_>>

EvictRemovesNode ==
  (LruEvict /\ lru_ret'.ok) =>
    /\ node_store_[lru_ret'.frame].present
    /\ node_store_'[lru_ret'.frame] = NoNode

FreshNode(f) ==
  (~node_store_[f].present /\ node_store_'[f].present) =>
    /\ RecordAccess(f)
    /\ node_store_'[f].history_ = <<current_timestamp_'>>
    /\ ~node_store_'[f].is_evictable_

C17_UntrackedFrameContract ==
  [][/\ \A f \in FrameIds, b \in BOOLEAN : SetEvictable(f, b) => SetEvictableContract(f, b)
     /\ EvictRemovesNode
     /\ \A f \in FrameIds : FreshNode(f)]_vars

\* evict has just removed a node that had been accessed before
C17_Witness ==
  /\ lru_ret.op = "Evict" /\ lru_ret.ok
  /\ ~node_store_[lru_ret.frame].present
  /\ current_timestamp_ > 0

(***************************************************************************)
(* C18: each page guard releases its pin exactly once: Drop, a second      *)
(* Drop and destruction together unpin the page one time; a move (move     *)
(* construction or move assignment) leaves the moved page's pin count      *)
(* unchanged and the source guard empty; move assignment first unpins the  *)
(* page the destination guard held before.                                 *)
(***************************************************************************)
\* the guards that hold frame f
GuardsOf(G, f) == {g \in GuardIds : G[g].live /\ G[g].page_ = f}

\* every frame is pinned once per guard that holds it
PinsMatchGuards ==
  \A f \in PoolFrames : pages_[f].pin_count_ = Cardinality(GuardsOf(page_guard_, f))

MoveKeepsPins ==
  \A g, that \in GuardIds :
    /\ GuardMoveConstruct(g, that) =>
         /\ pages_' = pages_
         /\ page_guard_'[g].page_ = page_guard_[that].page_
         /\ page_guard_'[that] = EmptyPageGuard
    /\ (g # that /\ GuardMoveAssign(g, that)) =>
         /\ page_guard_'[g].page_ = page_guard_[that].page_
         /\ page_guard_'[that] = EmptyPageGuard
         /\ \A f \in PoolFrames :
              pages_'[f].pin_count_ =
                IF f = page_guard_[g].page_
                THEN pages_[f].pin_count_ - 1
                ELSE pages_[f].pin_count_

SecondDropIsNoOp ==
  \A g \in GuardIds :
    (page_guard_[g].live /\ page_guard_[g].page_ = NoFrame /\ (GuardDrop(g) \/ GuardDestroy(g))) =>
      pages_' = pages_

C18_GuardReleasesPinOnce ==
  [](PinsMatchGuards) /\ [][MoveKeepsPins /\ SecondDropIsNoOp]_vars

\* a guard took over another guard's page by move assignment after dropping
\* a page of its own, and the moved page is still pinned exactly once
C18_Witness ==
  /\ bpm_ret.op = "Assign" /\ bpm_ret.ok
  /\ \E g \in GuardIds :
       /\ page_guard_[g].live /\ page_guard_[g].page_ # NoFrame
       /\ pages_[page_guard_[g].page_].pin_count_ = 1
       /\ \E f \in PoolFrames \ {page_guard_[g].page_} :
            pages_[f].page_id_ # INVALID_PAGE_ID /\ pages_[f].pin_count_ = 0

(***************************************************************************)
(* C19: remove(k) of a key that is not in the tree (a second remove of the *)
(* same key and a remove on an empty tree included) leaves the tree's      *)
(* contents and structure unchanged; after remove(k) the tree holds no     *)
(* value for k, while every other stored key is still found with its       *)
(* value.  `inserted` is the map the calls made so far must have built.    *)
(***************************************************************************)
\* the value the leaves reachable from leaf p hold for key k
RECURSIVE LeafChainValue(_, _)
LeafChainValue(p, k) ==
  IF p = INVALID_PAGE_ID THEN NoValue
  ELSE LET at == {i \in 1 .. Len(tree_pages_[p].keys) : tree_pages_[p].keys[i] = k}
       IN  IF at # {} THEN tree_pages_[p].values[CHOOSE i \in at : TRUE]
           ELSE LeafChainValue(tree_pages_[p].next_page_id_, k)

StoredValue(k) == LeafChainValue(LeftmostLeaf(root_page_id_), k)

Quiescent == \A t \in Threads : pc[t] = "idle"

\* a Remove has returned and no call is running
AfterRemove(t) == Quiescent /\ tree_ret[t].op = "Remove" /\ tree_ret[t].stable

RemoveKeepsOtherKeys ==
  \A t \in Threads :
    AfterRemove(t) =>
      /\ StoredValue(tree_ret[t].key) = NoValue
      /\ \A k \in Keys \ {tree_ret[t].key} : StoredValue(k) = inserted[k]

\* a step of a Remove call whose key was absent when the call began
RemoveOfAbsentKeyChangesNothing ==
  \A t \in Threads :
    (cur[t].op = "Remove" /\ cur[t].expect = NoValue) =>
      UNCHANGED <<root_page_id_, tree_pages_>>

RootCollapsed ==
  Quiescent =>
    /\ (root_page_id_ # INVALID_PAGE_ID /\ ~tree_pages_[root_page_id_].is_leaf) =>
         Len(tree_pages_[root_page_id_].children) >= 2
    /\ (root_page_id_ # INVALID_PAGE_ID /\ tree_pages_[root_page_id_].is_leaf) =>
         Len(tree_pages_[root_page_id_].keys) >= 1
    /\ (\A k \in Keys : inserted[k] = NoValue) => root_page_id_ = INVALID_PAGE_ID

\* every key inserted so far has been removed again by a Remove that returned
EmptiedByRemove ==
  /\ \A k \in Keys : inserted[k] = NoValue
  /\ \E u \in Threads : tree_ret[u].op = "Remove" /\ tree_ret[u].expect # NoValue

\* the step that ends thread t's Insert
InsertEnds(t) == cur[t].op = "Insert" /\ pc[t] # "idle" /\ pc'[t] = "idle"

InsertAfterEmptyingRebuilds ==
  \A t \in Threads :
    (InsertEnds(t) /\ EmptiedByRemove) =>
      /\ tree_ret'[t].ok /\ ~tree_ret'[t].threw
      /\ root_page_id_' # INVALID_PAGE_ID

C20_RootCollapse ==
  [](RootCollapsed) /\ [][InsertAfterEmptyingRebuilds]_vars

(***************************************************************************)
(* C21: scenario S3 (leaf_max = 3, internal_max = 3, keys inserted in the  *)
(* order 1, 2, 3, 4, ...): after the inserts of 1 .. n with n <= 3 the     *)
(* tree is a single leaf holding 1 .. n; after the insert of 4 the root is *)
(* an internal page with two leaf children holding [1,2] and [3,4].        *)
(***************************************************************************)
\* the keys passed to the Insert calls that have ended, not removed since
InsertedKeys == {k \in Keys : inserted[k] # NoValue}

\* the root is a leaf that holds exactly the keys 1 .. n in order
RootIsLeafOf(n) ==
  /\ root_page_id_ # INVALID_PAGE_ID
  /\ tree_pages_[root_page_id_].is_leaf
  /\ tree_pages_[root_page_id_].keys = [i \in 1 .. n |-> i]

\* the root is an internal page over the two leaves [1,2] and [3,4]
RootOverTwoLeaves ==
  /\ root_page_id_ # INVALID_PAGE_ID
  /\ ~tree_pages_[root_page_id_].is_leaf
  /\ Len(tree_pages_[root_page_id_].children) = 2
  /\ LET l == tree_pages_[root_page_id_].children[1]
         r == tree_pages_[root_page_id_].children[2]
     IN  /\ tree_pages_[l].is_leaf /\ tree_pages_[l].keys = <<1, 2>>
         /\ tree_pages_[r].is_leaf /\ tree_pages_[r].keys = <<3, 4>>

IsolationVerdict(level, state, mode) ==
  CASE level = "READ_UNCOMMITTED" /\ mode \in {"SHARED", "INTENTION_SHARED", "SHARED_INTENTION_EXCLUSIVE"} ->
         "LOCK_SHARED_ON_READ_UNCOMMITTED"
    [] level = "READ_UNCOMMITTED" /\ mode \in {"EXCLUSIVE", "INTENTION_EXCLUSIVE"} /\ state = "SHRINKING" ->
         "LOCK_ON_SHRINKING"
    [] level = "READ_COMMITTED" /\ state = "SHRINKING" /\ mode \notin {"SHARED", "INTENTION_SHARED"} ->
         "LOCK_ON_SHRINKING"
    [] level = "REPEATABLE_READ" /\ state = "SHRINKING" -> "LOCK_ON_SHRINKING"
    [] OTHER -> "none"

IsolationErrors == {"LOCK_SHARED_ON_READ_UNCOMMITTED", "LOCK_ON_SHRINKING"}

LockTableValidates ==
  \A t \in TxnIds, m \in LockMode, o \in TableOids :
    (LockTable(t, m, o) /\ txn_state[t] \in {"GROWING", "SHRINKING"}) =>
      LET verdict == IsolationVerdict(isolation_level[t], txn_state[t], m)
      IN  IF verdict # "none"
          THEN /\ txn_state'[t] = "ABORTED"
               /\ lm_ret'.reason = verdict /\ ~lm_ret'.ok
               /\ UNCHANGED <<request_queue_, upgrading_, table_lock_set, waiting>>
          ELSE lm_ret'.reason \notin IsolationErrors

C23_LockTableValidatesFirst == [][LockTableValidates]_vars

\* a READ_COMMITTED transaction that released an X lock was refused a lock
\* other than S and IS, and a READ_UNCOMMITTED one was refused in SHRINKING
C23_Witness ==
  /\ lm_ret.op = "LockTable" /\ lm_ret.reason = "LOCK_ON_SHRINKING"
  /\ isolation_level[lm_ret.txn] \in {"READ_COMMITTED", "READ_UNCOMMITTED"}
  /\ txn_state[lm_ret.txn] = "ABORTED"

(***************************************************************************)
(* C24: when a transaction that holds a table lock in mode m requests a    *)
(* different mode m', the request proceeds as an upgrade only if (m, m')   *)
(* is in the lattice IS -> {S, X, IX, SIX}, S -> {X, SIX},                 *)
(* IX -> {X, SIX}, SIX -> {X}.  For every other pair the transaction is    *)
(* set to ABORTED, the queue and the lock sets stay as they were, and the  *)
(* error is INCOMPATIBLE_UPGRADE.                                          *)
(***************************************************************************)
UpgradeLattice ==
  {<<"INTENTION_SHARED", "SHARED">>, <<"INTENTION_SHARED", "EXCLUSIVE">>,
   <<"INTENTION_SHARED", "INTENTION_EXCLUSIVE">>,
   <<"INTENTION_SHARED", "SHARED_INTENTION_EXCLUSIVE">>,
   <<"SHARED", "EXCLUSIVE">>, <<"SHARED", "SHARED_INTENTION_EXCLUSIVE">>,
   <<"INTENTION_EXCLUSIVE", "EXCLUSIVE">>,
   <<"INTENTION_EXCLUSIVE", "SHARED_INTENTION_EXCLUSIVE">>,
   <<"SHARED_INTENTION_EXCLUSIVE", "EXCLUSIVE">>}

\* transaction t holds a granted request on o in a mode other than m and the
\* isolation rules admit the request for m
RequestsOtherMode(t, m, o) ==
  /\ LockTable(t, m, o)
  /\ CanTxnTakeLock(txn_state[t], isolation_level[t], m) = "ok"
  /\ FindRequest(request_queue_[o], t) # 0
  /\ request_queue_[o][FindRequest(request_queue_[o], t)].lock_mode_ # m

HeldMode(t, o) == request_queue_[o][FindRequest(request_queue_[o], t)].lock_mode_

\* the request was refused with this error and nothing but the state changed
RefusedWith(t, reason) ==
  /\ txn_state'[t] = "ABORTED"
  /\ lm_ret'.reason = reason /\ ~lm_ret'.ok
  /\ UNCHANGED <<request_queue_, upgrading_, table_lock_set, waiting>>

\* the upgrade went ahead: the old request is gone and the new mode is in
\* the queue, granted or waiting
ProceedsAsUpgrade(t, m, o) ==
  /\ lm_ret'.reason = "none"
  /\ txn_state'[t] = txn_state[t]
  /\ \E i \in 1 .. Len(request_queue_'[o]) :
       request_queue_'[o][i].txn_id_ = t /\ request_queue_'[o][i].lock_mode_ = m
  /\ HeldMode(t, o) \notin {request_queue_'[o][i].lock_mode_ :
                             i \in {j \in 1 .. Len(request_queue_'[o]) : request_queue_'[o][j].txn_id_ = t}}

\* the claim as stated: the lattice alone decides
UpgradeDecidedByLattice ==
  \A t \in TxnIds, m \in LockMode, o \in TableOids :
    RequestsOtherMode(t, m, o) =>
      IF <<HeldMode(t, o), m>> \in UpgradeLattice
      THEN lm_ret'.reason # "INCOMPATIBLE_UPGRADE"
      ELSE RefusedWith(t, "INCOMPATIBLE_UPGRADE")

C24_IncompatibleUpgradeForEveryOtherPair == [][UpgradeDecidedByLattice]_vars

\* what holds: the upgrading slot is tested first
UpgradeDecidedBySlotThenLattice ==
  \A t \in TxnIds, m \in LockMode, o \in TableOids :
    RequestsOtherMode(t, m, o) =>
      IF upgrading_[o] # INVALID_TXN_ID THEN RefusedWith(t, "UPGRADE_CONFLICT")
      ELSE IF <<HeldMode(t, o), m>> \in UpgradeLattice THEN ProceedsAsUpgrade(t, m, o)
      ELSE RefusedWith(t, "INCOMPATIBLE_UPGRADE")

C24_UpgradeUnlessSlotTaken == [][UpgradeDecidedBySlotThenLattice]_vars

\* a pair outside the lattice was refused with UPGRADE_CONFLICT because
\* another transaction is the upgrader
C24_Witness ==
  /\ lm_ret.op = "LockTable" /\ lm_ret.reason = "UPGRADE_CONFLICT"
  /\ \E o \in TableOids :
       /\ upgrading_[o] \notin {INVALID_TXN_ID, lm_ret.txn}
       /\ FindRequest(request_queue_[o], lm_ret.txn) # 0
       /\ <<HeldMode(lm_ret.txn, o), lm_ret.mode>> \notin UpgradeLattice

(***************************************************************************)
(* C25: at most one transaction is the upgrader of a table.  The           *)
(* upgrading slot of a queue names transaction t exactly while t waits     *)
(* with an ungranted upgrade request in that queue, so it is clear again   *)
(* once the upgrade is granted or the upgrader has withdrawn after an      *)
(* abort; a transaction that attempts an upgrade while the slot is taken   *)
(* is set to ABORTED with UPGRADE_CONFLICT.                                *)
(***************************************************************************)
\* t is inside the wait loop of an upgrade on table o with its request ungranted
WaitsForUpgrade(t, o) ==
  /\ waiting[t].oid = o /\ waiting[t].upgrade
  /\ \E i \in 1 .. Len(request_queue_[o]) :
       request_queue_[o][i].txn_id_ = t /\ ~request_queue_[o][i].granted_

UpgradingNamesTheWaiter ==
  \A o \in TableOids, t \in TxnIds : (upgrading_[o] = t) <=> WaitsForUpgrade(t, o)

SecondUpgraderAborts ==
  \A t \in TxnIds, m \in LockMode, o \in TableOids :
    (RequestsOtherMode(t, m, o) /\ upgrading_[o] # INVALID_TXN_ID) =>
      /\ upgrading_[o] # t
      /\ txn_state'[t] = "ABORTED"
      /\ lm_ret'.reason = "UPGRADE_CONFLICT"
      /\ upgrading_' = upgrading_

C25_SingleUpgrader == [](UpgradingNamesTheWaiter) /\ [][SecondUpgraderAborts]_vars

\* while one transaction waits as the upgrader, another one whose upgrade the
\* lattice admits was refused
C25_Witness ==
  /\ lm_ret.op = "LockTable" /\ lm_ret.reason = "UPGRADE_CONFLICT"
  /\ \E o \in TableOids :
       /\ upgrading_[o] \notin {INVALID_TXN_ID, lm_ret.txn}
       /\ WaitsForUpgrade(upgrading_[o], o)
       /\ FindRequest(request_queue_[o], lm_ret.txn) # 0
       /\ <<HeldMode(lm_ret.txn, o), lm_ret.mode>> \in UpgradeLattice

(***************************************************************************)
(* C26: within one table's queue lock grants respect FIFO.  A request that *)
(* is not an upgrade enters at the tail of the queue and is granted only   *)
(* when every request ahead of it, that is every request that arrived      *)
(* before it and is still in the queue, has been granted; so the granted   *)
(* requests form a prefix of the queue and a waiting request is never      *)
(* bypassed by a later one, even one compatible with all granted locks.    *)
(***************************************************************************)
\* in every queue the granted requests come before the ungranted ones
GrantedIsPrefix ==
  \A o \in TableOids :
    \A i, j \in 1 .. Len(request_queue_[o]) :
      (i < j /\ request_queue_[o][j].granted_) => request_queue_[o][i].granted_

\* a first request of t on o, when it is enqueued, goes behind all others
NewRequestAtTail ==
  \A t \in FifoTxnIds, m \in LockMode, o \in TableOids :
    (/\ Len(request_queue_'[o]) > Len(request_queue_[o])
     /\ FindRequest(request_queue_[o], t) = 0
     /\ LockTable(t, m, o)) =>
      /\ Len(request_queue_'[o]) = Len(request_queue_[o]) + 1
      /\ request_queue_'[o][Len(request_queue_'[o])].txn_id_ = t
      /\ SubSeq(request_queue_'[o], 1, Len(request_queue_[o])) = request_queue_[o]

\* the position of the request of t that this step grants, 0 when it grants none
GrantedNow(t, o) ==
  LET new == {i \in 1 .. Len(request_queue_'[o]) :
                /\ request_queue_'[o][i].txn_id_ = t /\ request_queue_'[o][i].granted_
                /\ \A j \in 1 .. Len(request_queue_[o]) :
                     request_queue_[o][j].txn_id_ = t => ~request_queue_[o][j].granted_}
  IN  IF new = {} THEN 0 ELSE CHOOSE i \in new : TRUE

\* a grant to a request that is not an upgrade (one that waited at its place
\* in the queue, or a first request granted as it arrives) finds every
\* request ahead of it granted
GrantInArrivalOrder ==
  \A t \in FifoTxnIds, o \in TableOids :
    (GrantedNow(t, o) # 0 /\ (FindRequest(request_queue_[o], t) = 0 \/ ~waiting[t].upgrade)) =>
      \A j \in 1 .. (GrantedNow(t, o) - 1) :
        request_queue_[o][j].granted_ /\ request_queue_'[o][j] = request_queue_[o][j]

C26_GrantsRespectFifo ==
  [](GrantedIsPrefix) /\ [][NewRequestAtTail /\ GrantInArrivalOrder]_vars

\* a request waits although it is compatible with every granted lock,
\* because an earlier request is still waiting
C26_Witness ==
  \E o \in TableOids :
    \E i, j \in 1 .. Len(request_queue_[o]) :
      /\ i < j
      /\ ~request_queue_[o][i].granted_ /\ ~request_queue_[o][j].granted_
      /\ \A h \in 1 .. Len(request_queue_[o]) :
           request_queue_[o][h].granted_ =>
             AreLocksCompatible(request_queue_[o][h].lock_mode_, request_queue_[o][j].lock_mode_)
      /\ \E h \in 1 .. Len(request_queue_[o]) : request_queue_[o][h].granted_

(***************************************************************************)
(* C27: a successful UnlockTable changes the state of the calling          *)
(* transaction only in these cases: under REPEATABLE_READ the release of   *)
(* S or X moves it to SHRINKING, under READ_COMMITTED and READ_UNCOMMITTED *)
(* only the release of X does.  The release of IS, IX or SIX never changes *)
(* the state, and the release of S under READ_COMMITTED leaves a GROWING   *)
(* transaction GROWING.  No other transaction's state changes.             *)
(***************************************************************************)
ShrinkingReleases ==
  {<<"REPEATABLE_READ", "SHARED">>, <<"REPEATABLE_READ", "EXCLUSIVE">>,
   <<"READ_COMMITTED", "EXCLUSIVE">>, <<"READ_UNCOMMITTED", "EXCLUSIVE">>}

UnlockSetsState ==
  \A t \in TxnIds, o \in TableOids :
    (UnlockTable(t, o) /\ lm_ret'.ok) =>
      /\ txn_state'[t] = IF <<isolation_level[t], HeldMode(t, o)>> \in ShrinkingReleases
                         THEN "SHRINKING" ELSE txn_state[t]
      /\ \A u \in TxnIds \ {t} : txn_state'[u] = txn_state[u]

C27_UnlockStateTransitions == [][UnlockSetsState]_vars

\* a READ_COMMITTED transaction released an S lock and is still GROWING
C27_Witness ==
  /\ lm_ret.op = "UnlockTable" /\ lm_ret.ok /\ lm_ret.mode = "SHARED"
  /\ isolation_level[lm_ret.txn] = "READ_COMMITTED"
  /\ txn_state[lm_ret.txn] = "GROWING"

(***************************************************************************)
(* C28: UnlockTable by a transaction that has no granted request on the    *)
(* table, be it no request at all or only an ungranted one, sets the       *)
(* transaction to ABORTED and raises ATTEMPTED_UNLOCK_BUT_NO_LOCK_HELD,    *)
(* and leaves the requests of every queue as they were.  A successful      *)
(* UnlockTable removes the request of that transaction from the queue of   *)
(* that table and no other request.                                        *)
(***************************************************************************)
HoldsGranted(t, o) ==
  \E i \in 1 .. Len(request_queue_[o]) :
    request_queue_[o][i].txn_id_ = t /\ request_queue_[o][i].granted_

\* the requests of q that are not of transaction t, in their order
RECURSIVE RequestsOfOthers(_, _)
RequestsOfOthers(q, t) ==
  IF q = <<>> THEN <<>>
  ELSE IF Head(q).txn_id_ = t THEN RequestsOfOthers(Tail(q), t)
       ELSE <<Head(q)>> \o RequestsOfOthers(Tail(q), t)

UnlockWithoutLockAborts ==
  \A t \in TxnIds, o \in TableOids :
    (UnlockTable(t, o) /\ ~HoldsGranted(t, o)) =>
      /\ txn_state'[t] = "ABORTED"
      /\ ~lm_ret'.ok /\ lm_ret'.reason = "ATTEMPTED_UNLOCK_BUT_NO_LOCK_HELD"
      /\ request_queue_' = request_queue_

UnlockRemovesOwnRequest ==
  \A t \in TxnIds, o \in TableOids :
    (UnlockTable(t, o) /\ HoldsGranted(t, o)) =>
      /\ lm_ret'.ok
      /\ request_queue_'[o] = RequestsOfOthers(request_queue_[o], t)
      /\ Len(request_queue_'[o]) = Len(request_queue_[o]) - 1
      /\ \A p \in TableOids \ {o} : request_queue_'[p] = request_queue_[p]

C28_UnlockNeedsGrantedLock == [][UnlockWithoutLockAborts /\ UnlockRemovesOwnRequest]_vars

\* the unlock met a request of the caller that waits for its grant
C28_Witness ==
  /\ lm_ret.op = "UnlockTable" /\ lm_ret.reason = "ATTEMPTED_UNLOCK_BUT_NO_LOCK_HELD"
  /\ txn_state[lm_ret.txn] = "ABORTED"
  /\ FindRequest(request_queue_[lm_ret.oid], lm_ret.txn) # 0
  /\ ~HoldsGranted(lm_ret.txn, lm_ret.oid)

(***************************************************************************)
(* C29: the table lock sets of a transaction mirror the queues.  In every  *)
(* state table O is in the lock set of transaction T for mode m if and     *)
(* only if the queue of O holds a granted request of T in mode m, and O is *)
(* in at most one of the five table lock sets of T.  When an upgrade from  *)
(* IS to S is granted, O is in the S set and no longer in the IS set.      *)
(***************************************************************************)
HoldsGrantedIn(t, m, o) ==
  \E i \in 1 .. Len(request_queue_[o]) :
    request_queue_[o][i] = [txn_id_ |-> t, lock_mode_ |-> m, granted_ |-> TRUE]

LockSetsMirrorQueues ==
  \A t \in TxnIds, o \in TableOids :
    /\ \A m \in LockMode : (o \in table_lock_set[t][m]) <=> HoldsGrantedIn(t, m, o)
    /\ Cardinality({m \in LockMode : o \in table_lock_set[t][m]}) <= 1

UpgradeMovesLockSet ==
  \A t \in TxnIds, o \in TableOids :
    (/\ o \in table_lock_set[t]["INTENTION_SHARED"]
     /\ LockTable(t, "SHARED", o)
     /\ lm_ret'.ok) =>
      /\ o \notin table_lock_set'[t]["INTENTION_SHARED"]
      /\ o \in table_lock_set'[t]["SHARED"]

C29_LockSetsMirrorGrantedRequests ==
  [](LockSetsMirrorQueues) /\ [][UpgradeMovesLockSet]_vars

\* an upgrade to S was granted while another transaction holds a lock on the
\* same table
C29_Witness ==
  /\ lm_ret.op = "LockTable" /\ lm_ret.ok /\ lm_ret.upgrade /\ lm_ret.mode = "SHARED"
  /\ lm_ret.oid \in table_lock_set[lm_ret.txn]["SHARED"]
  /\ \E u \in TxnIds \ {lm_ret.txn}, m \in LockMode : HoldsGrantedIn(u, m, lm_ret.oid)

(***************************************************************************)
(* C30: LockRow rejects invalid row requests.  A request for IS, IX or SIX *)
(* on a row sets the transaction to ABORTED and raises                     *)
(* ATTEMPTED_INTENTION_LOCK_ON_ROW.  A request for X on a row while the    *)
(* transaction holds none of X, IX, SIX on the table of the row sets the   *)
(* transaction to ABORTED and raises TABLE_LOCK_NOT_PRESENT.  In neither   *)
(* case does the call return true.                                         *)
(***************************************************************************)
IntentionModes == {"INTENTION_SHARED", "INTENTION_EXCLUSIVE", "SHARED_INTENTION_EXCLUSIVE"}

\* the transaction holds a table lock under which a row may be locked X
HoldsTableLockForX(t, o) ==
  \E m \in {"EXCLUSIVE", "INTENTION_EXCLUSIVE", "SHARED_INTENTION_EXCLUSIVE"} :
    o \in table_lock_set[t][m]

LockRowRejected(t, reason) ==
  /\ txn_state'[t] = "ABORTED"
  /\ ~lm_ret'.ok /\ lm_ret'.reason = reason

LockRowRejectsInvalid ==
  \A t \in TxnIds, m \in LockMode, o \in TableOids, r \in RowIds :
    (LockRow(t, m, o, r) /\ txn_state[t] = "GROWING") =>
      /\ m \in IntentionModes => LockRowRejected(t, "ATTEMPTED_INTENTION_LOCK_ON_ROW")
      /\ (m = "EXCLUSIVE" /\ ~HoldsTableLockForX(t, o)) => LockRowRejected(t, "TABLE_LOCK_NOT_PRESENT")

C30_LockRowRejectsInvalidRequests == [][LockRowRejectsInvalid]_vars

(***************************************************************************)
(* C31: deadlocks are resolved.  When T1 holds X on O1 and waits for X on  *)
(* O2 while T2 holds X on O2 and waits for X on O1, then with the          *)
(* detection thread running the transaction with the largest id of the     *)
(* two is eventually ABORTED, and a call of HasCycle in that state returns *)
(* true with that transaction as the victim.                               *)
(***************************************************************************)
WaitsForX(t, o) ==
  /\ waiting[t] # NoWait /\ waiting[t].oid = o
  /\ \E i \in 1 .. Len(request_queue_[o]) :
       request_queue_[o][i] = [txn_id_ |-> t, lock_mode_ |-> "EXCLUSIVE", granted_ |-> FALSE]

Deadlocked(t1, t2, o1, o2) ==
  /\ t1 # t2 /\ o1 # o2
  /\ HoldsGrantedIn(t1, "EXCLUSIVE", o1) /\ WaitsForX(t1, o2)
  /\ HoldsGrantedIn(t2, "EXCLUSIVE", o2) /\ WaitsForX(t2, o1)

Youngest(t1, t2) == IF t1 > t2 THEN t1 ELSE t2

VictimEventuallyAborted ==
  \A t1 \in TxnIds, t2 \in TxnIds, o1 \in DlTableOids, o2 \in DlTableOids :
    Deadlocked(t1, t2, o1, o2) ~> (txn_state[Youngest(t1, t2)] = "ABORTED")

HasCycleNamesVictim ==
  \A t1 \in TxnIds, t2 \in TxnIds, o1 \in DlTableOids, o2 \in DlTableOids :
    (Deadlocked(t1, t2, o1, o2) /\ HasCycle) =>
      (lm_ret'.ok /\ lm_ret'.txn = Youngest(t1, t2))

C31_DeadlockResolved == VictimEventuallyAborted /\ [][HasCycleNamesVictim]_vars

(***************************************************************************)
(* C40: in every state, a frame whose page latch is held through a Read or *)
(* Write guard has pin_count >= 1 and still holds the page the guard was   *)
(* created for.                                                            *)
(***************************************************************************)
LatchedFrameIsPinned(t) ==
  LET f == page_table_[guard_[t].page_id]
  IN  /\ f # NoFrame
      /\ pages_[f].page_id_ = guard_[t].page_id
      /\ pages_[f].pin_count_ >= 1

C40_LatchedFrameStaysPinned ==
  \A t \in Threads : guard_[t].latched => LatchedFrameIsPinned(t)

(***************************************************************************)
(* C33: a read descent holds the header's shared latch until it has        *)
(* acquired the shared latch on the root: a thread that has read           *)
(* root_page_id_ from the header and has not yet latched the root still    *)
(* holds the header's read latch, so that the root cannot change under it. *)
(***************************************************************************)
\* the thread has read root_page_id_ and is about to fetch and latch the root
AboutToLatchRoot(t) == pc[t] = "bk_descend"

C33_ReadDescentHoldsHeaderUntilRoot ==
  \A t \in Threads : AboutToLatchRoot(t) => t \in rwlatch_.r

(***************************************************************************)
(* C32: the latches a write descent holds are those of a path that leads   *)
(* from the header, or from the deepest safe node, down to the node it     *)
(* latches next; when a safe node is latched, the latches of its ancestors *)
(* and of the header are released.  So the page a write descent latches    *)
(* next lies below every page it holds: it is never a page whose latch the *)
(* descent holds already, and once the descent holds latches only below    *)
(* the header the header latch is free of it.                              *)
(***************************************************************************)
\* the thread is inside Insert and asks for the write latch of the header
LatchesHeaderNext(t) == pc[t] = "ins_relock"

\* the thread holds the write latch of the header
HoldsHeaderWLatch(t) == rwlatch_.w = t

RootWrittenUnderHeaderWLatch ==
  root_page_id_' # root_page_id_ =>
    \E t \in Threads : rwlatch_.w = t /\ cur[t].op \in {"Insert", "Remove"}

RootIdNamesRootPage ==
  (Quiescent /\ InsertedKeys # {}) =>
    /\ root_page_id_ # INVALID_PAGE_ID
    /\ \A k \in InsertedKeys : StoredValue(k) # NoValue

RECURSIVE PagesUnder(_)
PagesUnder(p) ==
  IF p = INVALID_PAGE_ID THEN {}
  ELSE IF tree_pages_[p].is_leaf THEN {p}
  ELSE {p} \cup UNION {PagesUnder(tree_pages_[p].children[i]) :
                         i \in 1 .. Len(tree_pages_[p].children)}

CeilHalf(n) == (n + 1) \div 2

PageSizeLegal(p) ==
  LET page == tree_pages_[p]
  IN  IF page.is_leaf
      THEN p # root_page_id_ =>
             /\ Len(page.keys) >= CeilHalf(leaf_max_size_ - 1)
             /\ Len(page.keys) <= leaf_max_size_ - 1
      ELSE /\ Len(page.children) <= internal_max_size_
           /\ Len(page.children) >= IF p = root_page_id_ THEN 2 ELSE CeilHalf(internal_max_size_)

EntriesAreInLeaves ==
  \A k \in InsertedKeys :
    \E p \in PagesUnder(root_page_id_) :
      tree_pages_[p].is_leaf /\ \E i \in 1 .. Len(tree_pages_[p].keys) : tree_pages_[p].keys[i] = k

PlaceAfter(t, o) == FindRequest(request_queue_'[o], t)

\* the step that starts an upgrade leaves the other requests as they were and
\* in their order, and puts the new request behind every granted request and
\* ahead of every waiting one
UpgradeEntersAtBoundary ==
  \A t \in FifoTxnIds, m \in LockMode, o \in TableOids :
    (/\ lm_ret'.txn = t /\ lm_ret'.mode = m /\ waiting[t] = NoWait
     /\ RequestsOtherMode(t, m, o) /\ ProceedsAsUpgrade(t, m, o)) =>
      /\ Len(request_queue_'[o]) = Len(request_queue_[o])
      /\ RemoveAt(request_queue_'[o], PlaceAfter(t, o))
           = RemoveAt(request_queue_[o], FindRequest(request_queue_[o], t))
      /\ request_queue_'[o][PlaceAfter(t, o)].lock_mode_ = m
      /\ \A j \in 1 .. Len(request_queue_'[o]) :
           /\ j < PlaceAfter(t, o) => request_queue_'[o][j].granted_
           /\ j > PlaceAfter(t, o) => ~request_queue_'[o][j].granted_

\* while an upgrade waits on a table no other request on it is granted
UpgradeGrantedFirst ==
  \A t \in FifoTxnIds, u \in FifoTxnIds, o \in TableOids :
    (WaitsForUpgrade(t, o) /\ u # t) => GrantedNow(u, o) = 0

\* a step that grants an upgrade, at once or after a wait, leaves it
\* compatible with every other granted request
UpgradeGrantedWhenCompatible ==
  \A t \in FifoTxnIds, o \in TableOids :
    (lm_ret'.upgrade /\ GrantedNow(t, o) # 0) =>
      \A j \in 1 .. Len(request_queue_'[o]) :
        (j # GrantedNow(t, o) /\ request_queue_'[o][j].granted_) =>
          AreLocksCompatible(request_queue_'[o][j].lock_mode_,
                             request_queue_'[o][GrantedNow(t, o)].lock_mode_)

C36_UpgradeHasPriority ==
  [][UpgradeEntersAtBoundary /\ UpgradeGrantedFirst /\ UpgradeGrantedWhenCompatible]_vars

\* an upgrade waits behind a granted lock of another transaction and ahead
\* of a request that waited before the upgrade was asked for
C36_Witness ==
  \E t \in FifoTxnIds, o \in TableOids :
    /\ WaitsForUpgrade(t, o)
    /\ \E i, j \in 1 .. Len(request_queue_[o]) :
         /\ i < FindRequest(request_queue_[o], t) /\ request_queue_[o][i].granted_
         /\ j > FindRequest(request_queue_[o], t) /\ ~request_queue_[o][j].granted_

(***************************************************************************)
(* C37: a LockTable call whose transaction is set to ABORTED while it      *)
(* waits never obtains the lock: on its next wake-up it removes its own    *)
(* request from the queue, clears the upgrading slot if it was the         *)
(* upgrader, notifies the other waiters and returns false, with its        *)
(* request never marked granted and its lock sets not gaining the table.   *)
(***************************************************************************)
AbortedInWait(t) == waiting[t] # NoWait /\ txn_state[t] = "ABORTED"

\* an aborted waiter holds nothing on the table it waits for
AbortedWaiterHoldsNothing ==
  \A t \in TxnIds :
    AbortedInWait(t) =>
      /\ \A i \in 1 .. Len(request_queue_[waiting[t].oid]) :
           request_queue_[waiting[t].oid][i].txn_id_ = t
             => ~request_queue_[waiting[t].oid][i].granted_
      /\ \A m \in LockMode : waiting[t].oid \notin table_lock_set[t][m]

\* the wake-up of an aborted waiter withdraws the request, frees the
\* upgrading slot it had, notifies every other waiter of the queue and
\* returns false
AbortedWakeWithdraws ==
  \A t \in TxnIds :
    (AbortedInWait(t) /\ LockTableWake(t)) =>
      /\ FindRequest(request_queue_'[waiting[t].oid], t) = 0
      /\ request_queue_'[waiting[t].oid]
           = RemoveAt(request_queue_[waiting[t].oid],
                      FindRequest(request_queue_[waiting[t].oid], t))
      /\ upgrading_'[waiting[t].oid] # t
      /\ waiting[t].upgrade => upgrading_'[waiting[t].oid] = INVALID_TXN_ID
      /\ \A u \in TxnIds \ {t} :
           IF waiting[u].oid = waiting[t].oid
           THEN waiting'[u] = [waiting[u] EXCEPT !.notified = TRUE]
           ELSE waiting'[u] = waiting[u]
      /\ waiting'[t] = NoWait
      /\ lm_ret'.op = "LockTable" /\ lm_ret'.txn = t /\ ~lm_ret'.ok
      /\ table_lock_set' = table_lock_set
      /\ txn_state' = txn_state

\* no step grants the request of an aborted waiter or enters the table in
\* its lock sets
AbortedNeverGranted ==
  \A t \in TxnIds :
    AbortedInWait(t) =>
      /\ \A i \in 1 .. Len(request_queue_'[waiting[t].oid]) :
           request_queue_'[waiting[t].oid][i].txn_id_ = t
             => ~request_queue_'[waiting[t].oid][i].granted_
      /\ \A m \in LockMode : waiting[t].oid \notin table_lock_set'[t][m]

C37_AbortedWaiterGetsNothing ==
  [](AbortedWaiterHoldsNothing) /\ [][AbortedWakeWithdraws /\ AbortedNeverGranted]_vars

\* an aborted waiter has woken, withdrawn its request and returned false, and
\* another waiter of the same queue has been notified
C37_Witness ==
  /\ lm_ret.op = "LockTable" /\ lm_ret.woke /\ ~lm_ret.ok
  /\ txn_state[lm_ret.txn] = "ABORTED"
  /\ waiting[lm_ret.txn] = NoWait
  /\ FindRequest(request_queue_[lm_ret.oid], lm_ret.txn) = 0
  /\ upgrading_[lm_ret.oid] = INVALID_TXN_ID
  /\ \E u \in TxnIds : waiting[u].oid = lm_ret.oid /\ waiting[u].notified

(***************************************************************************)
(* C38: no lost wake-up.  Whenever a waiting request at the head of the    *)
(* ungranted part of a queue becomes compatible with all granted requests  *)
(* (because of an unlock, an aborted waiter leaving, or a preceding        *)
(* grant), that request is eventually granted, and consecutive compatible  *)
(* waiters behind it are granted in turn without any further unlock being  *)
(* needed.  The wait ends otherwise only when the transaction is aborted   *)
(* or when an upgrade of a holder gets ahead of the request.               *)
(***************************************************************************)
WaitingMode(t, o) ==
  LET q == request_queue_[o]
  IN  q[CHOOSE j \in 1 .. Len(q) : q[j].txn_id_ = t /\ ~q[j].granted_].lock_mode_

\* t sleeps in the wait loop with the first ungranted request of o, and
\* that request is compatible with every granted one
HeadCompatible(t, o) ==
  /\ waiting[t].oid = o
  /\ txn_state[t] # "ABORTED"
  /\ GrantLock(t, WaitingMode(t, o), request_queue_[o])

C38_NoLostWakeUp ==
  \A t \in FifoTxnIds, o \in TableOids :
    HeadCompatible(t, o) ~>
      (HoldsGranted(t, o) \/ txn_state[t] = "ABORTED" \/ ~HeadCompatible(t, o))

\* a waiter was granted its lock after a wake-up, behind a request of
\* another transaction that is granted too, while the third transaction
\* has released its lock
C38_Witness ==
  /\ lm_ret.op = "LockTable" /\ lm_ret.woke /\ lm_ret.ok
  /\ \E i, j \in 1 .. Len(request_queue_[lm_ret.oid]) :
       /\ i < j
       /\ request_queue_[lm_ret.oid][i].granted_
       /\ request_queue_[lm_ret.oid][j].granted_
       /\ request_queue_[lm_ret.oid][j].txn_id_ = lm_ret.txn
  /\ \E u \in FifoTxnIds :
       txn_state[u] = "SHRINKING" /\ FindRequest(request_queue_[lm_ret.oid], u) = 0

(***************************************************************************)
(* C39: the mutexes of the lock manager never deadlock.  The mutex of the  *)
(* queue map is never held while a thread blocks on a queue's mutex or     *)
(* condition variable, and no thread acquires the map mutex while it holds *)
(* a queue's mutex, so concurrent LockTable and UnlockTable calls on the   *)
(* same table cannot block each other for ever on these mutexes.           *)
(***************************************************************************)
\* t stands in front of latch_.lock() of a queue that another thread owns
BlockedOnQueueLatch(t) ==
  /\ lm_pc[t] \in {"lock_queue", "unlock_queue", "wait"}
  /\ latch_[lm_call[t].oid] \notin {Unlocked, t}

\* t stands in front of table_lock_map_latch_.lock() and another thread
\* owns that mutex
BlockedOnMapLatch(t) ==
  /\ lm_pc[t] \in {"lock_map", "unlock_map"}
  /\ table_lock_map_latch_ \notin {Unlocked, t}

MapLatchFreeWhileBlocked ==
  \A t \in TxnIds :
    table_lock_map_latch_ = t => (~BlockedOnQueueLatch(t) /\ waiting[t] = NoWait)

\* no thread that owns a queue's latch_ has table_lock_map_latch_.lock() as
\* its next statement
MapLatchNotTakenUnderQueueLatch ==
  \A t \in TxnIds, o \in TableOids :
    latch_[o] = t => lm_pc[t] \notin {"lock_map", "unlock_map"}

\* no two threads wait for each other's mutex
NoLatchDeadlock ==
  \A t, u \in TxnIds :
    ~(/\ BlockedOnQueueLatch(t) /\ latch_[lm_call[t].oid] = u
      /\ BlockedOnMapLatch(u) /\ table_lock_map_latch_ = t)

C39_LatchesNeverDeadlock ==
  MapLatchFreeWhileBlocked /\ MapLatchNotTakenUnderQueueLatch /\ NoLatchDeadlock

====
